---------------------------- MODULE Spec2Model ----------------------------
(* dAPI staking pallet (pallets/dapi-staking): era state machine, provider *)
(* and delegator ledgers, unbonding ledger, reward accumulation and claims. *)
(* Every dispatchable is an operator from a storage record to the pair      *)
(* (error, storage at return); the storage at return contains every write   *)
(* the handler made before it returned, also when it returns an error.      *)
EXTENDS Integers, Sequences, FiniteSets, TLC

(***************************************************************************)
(* Bounds of the model                                                     *)
(***************************************************************************)
MaxBlock == 4
MaxCalls == 4
MaxCollected == 7
InitialBalance == 20
MaxBlockEra == 6
MaxCollectedEra == 9
MaxBlockStake == 5
MaxCallsStake == 5
MaxCollectedStake == 10
MaxLedgerOps == 5
MaxBlockCrowd == 2
MaxCallsCrowd == 7
MaxBlockUnbond == 5
MaxCallsUnbond == 6
MaxBlockEscrow == 3
MaxCallsEscrow == 7
MaxCollectedEscrow == 10
MaxBlockLive == 5
MaxCallsLive == 4
StakeBalance == 30

(***************************************************************************)
(* Configuration (Config trait constants)                                  *)
(***************************************************************************)
MinProviderStake == 10
MinDelegatorStake == 10
MaxDelegatorsPerProvider == 5
MaxEraStakeValues == 5
UnbondingPeriod == 2
MaxUnlockingChunks == 2
DefaultBlocksPerEra == 3
ProviderRewardsPercentage == 800000000
ACCURACY == 1000000000

Providers == {"p1", "p2"}
Accounts == {"a1", "a2"}
Escrow == "pallet"
AllAccounts == Accounts \cup {Escrow}

(* Inputs of the dispatchables *)
BondInputs == {MinProviderStake - 1, MinProviderStake}
AmountInputs == {0, MinDelegatorStake}
RewardInputs == {7}
LengthInputs == {1}
EraInputs == 0..(MaxBlock + 1)
EraRewardInputs == {3}
EraLengthInputs == {1, 2}

Min(a, b) == IF a < b THEN a ELSE b
Max(a, b) == IF a > b THEN a ELSE b
SatSub(a, b) == IF a > b THEN a - b ELSE 0

(***************************************************************************)
(* Perbill (parts per billion).  The u64 products of the library are       *)
(* evaluated digit-wise in base 1000 because TLC's integers are            *)
(* 32 bits wide; the quotients and remainders are the same.                *)
(***************************************************************************)
DivCeil(x, f) == (x \div f) + (IF x % f > 0 THEN 1 ELSE 0)

\* floor(p * ACCURACY / q) for 0 <= p <= q, q >= 1
MulAccDiv(p, q) ==
    LET d1 == (p * 1000) \div q
        r1 == (p * 1000) % q
        d2 == (r1 * 1000) \div q
        r2 == (r1 * 1000) % q
        d3 == (r2 * 1000) \div q
    IN d1 * 1000000 + d2 * 1000 + d3

\* Perbill::from_rational(p, q): q is raised to 1, p is capped at q, the
\* quotient is rounded down.
PerbillFromRational(p, q) ==
    LET q1 == Max(q, 1)
        p1 == Min(p, q1)
        factor == Max(DivCeil(q1, ACCURACY), 1)
        q2 == DivCeil(q1, factor)
        p2 == p1 \div factor
    IN MulAccDiv(p2, q2)

\* Perbill * balance: (x / ACCURACY) * part + the correction for the
\* remainder, rounded to nearest with an exact half rounded down.
PerbillMul(part, x) ==
    LET rem == x % ACCURACY
        h == part \div 1000000
        l == part % 1000000
        B == rem * l
        hi == rem * h + (B \div 1000000)
        lo == B % 1000000
        quo == hi \div 1000
        frac == (hi % 1000) * 1000000 + lo
        c == quo + (IF frac > ACCURACY \div 2 THEN 1 ELSE 0)
    IN (x \div ACCURACY) * part + c

(***************************************************************************)
(* Delegation: the run-length encoded list of EraStake <<era, amount>>     *)
(***************************************************************************)
EraStake(amount, e) == [era |-> e, amount |-> amount]

Last(s) == s[Len(s)]
ReplaceLast(s, x) == [s EXCEPT ![Len(s)] = x]
RemoveFirst(s) == SubSeq(s, 2, Len(s))

\* "Removes unstaked values if they're no longer valid for comprehension"
DropZeroHead(s) == IF Len(s) > 0 /\ s[1].amount = 0 THEN RemoveFirst(s) ELSE s

\* a latest value read from the oldest entry
latest_staked_value_Head(s) == IF Len(s) = 0 THEN 0 ELSE Head(s).amount

\* Delegation::latest_staked_value
latest_staked_value(s) == IF Len(s) = 0 THEN 0 ELSE Last(s).amount

\* a stake that overwrites the staked amount instead of adding to it
DelegationStake_NoAdd(s, current_era, amount) ==
    IF Len(s) > 0
    THEN IF Last(s).era > current_era
         THEN [ok |-> FALSE, stakes |-> s]
         ELSE [ok |-> TRUE,
               stakes |-> IF current_era = Last(s).era
                          THEN ReplaceLast(s, EraStake(amount, current_era))
                          ELSE Append(s, EraStake(amount, current_era))]
    ELSE [ok |-> TRUE, stakes |-> Append(s, EraStake(amount, current_era))]

\* Delegation::stake: [ok, stakes]
DelegationStake(s, current_era, amount) ==
    IF Len(s) > 0
    THEN IF Last(s).era > current_era
         THEN [ok |-> FALSE, stakes |-> s]
         ELSE LET new_stake_amount == Last(s).amount + amount
              IN [ok |-> TRUE,
                  stakes |-> IF current_era = Last(s).era
                             THEN ReplaceLast(s, EraStake(new_stake_amount, current_era))
                             ELSE Append(s, EraStake(new_stake_amount, current_era))]
    ELSE [ok |-> TRUE, stakes |-> Append(s, EraStake(amount, current_era))]

\* an unstake that lowers the last entry even when it belongs to an earlier era
DelegationUnstake_InPlace(s, current_era, amount) ==
    IF Len(s) > 0
    THEN IF Last(s).era > current_era
         THEN [ok |-> FALSE, stakes |-> s]
         ELSE LET new_stake_amount == SatSub(Last(s).amount, amount)
                  t == ReplaceLast(s, EraStake(new_stake_amount, Last(s).era))
              IN [ok |-> TRUE, stakes |-> DropZeroHead(t)]
    ELSE [ok |-> TRUE, stakes |-> s]

\* Delegation::unstake: [ok, stakes]
DelegationUnstake(s, current_era, amount) ==
    IF Len(s) > 0
    THEN IF Last(s).era > current_era
         THEN [ok |-> FALSE, stakes |-> s]
         ELSE LET new_stake_amount == SatSub(Last(s).amount, amount)
                  t == IF current_era = Last(s).era
                       THEN ReplaceLast(s, EraStake(new_stake_amount, current_era))
                       ELSE Append(s, EraStake(new_stake_amount, current_era))
              IN [ok |-> TRUE, stakes |-> DropZeroHead(t)]
    ELSE [ok |-> TRUE, stakes |-> s]

\* a claim that adds the entry of the next era and keeps the claimed one
DelegationClaim_KeepsHead(s) ==
    IF Len(s) > 0
    THEN LET delegation == s[1]
             t == IF Len(s) = 1 \/ s[2].era > delegation.era + 1
                  THEN <<delegation, EraStake(delegation.amount, delegation.era + 1)>>
                       \o RemoveFirst(s)
                  ELSE RemoveFirst(s)
         IN [era |-> delegation.era, amount |-> delegation.amount,
             stakes |-> DropZeroHead(t)]
    ELSE [era |-> 0, amount |-> 0, stakes |-> s]

\* a claim that removes the last entry instead of moving it to the next era
DelegationClaim_RemovesLast(s) ==
    IF Len(s) > 0
    THEN LET delegation == s[1]
             t == IF Len(s) > 1 /\ s[2].era > delegation.era + 1
                  THEN [s EXCEPT ![1] = EraStake(delegation.amount, delegation.era + 1)]
                  ELSE RemoveFirst(s)
         IN [era |-> delegation.era, amount |-> delegation.amount,
             stakes |-> DropZeroHead(t)]
    ELSE [era |-> 0, amount |-> 0, stakes |-> s]

\* a claim that moves the head to the next era even when the next entry is
\* already there
DelegationClaim_AlwaysAdvance(s) ==
    IF Len(s) > 0
    THEN LET delegation == s[1]
             t == [s EXCEPT ![1] = EraStake(delegation.amount, delegation.era + 1)]
         IN [era |-> delegation.era, amount |-> delegation.amount,
             stakes |-> DropZeroHead(t)]
    ELSE [era |-> 0, amount |-> 0, stakes |-> s]

\* a claim that returns the head without advancing it
DelegationClaim_NoAdvance(s) ==
    IF Len(s) > 0
    THEN [era |-> s[1].era, amount |-> s[1].amount, stakes |-> s]
    ELSE [era |-> 0, amount |-> 0, stakes |-> s]

\* Delegation::claim: [era, amount, stakes]; (0, 0) on an empty ledger
DelegationClaim(s) ==
    IF Len(s) > 0
    THEN LET delegation == s[1]
             t == IF Len(s) = 1 \/ s[2].era > delegation.era + 1
                  THEN [s EXCEPT ![1] = EraStake(delegation.amount, delegation.era + 1)]
                  ELSE RemoveFirst(s)
         IN [era |-> delegation.era, amount |-> delegation.amount,
             stakes |-> DropZeroHead(t)]
    ELSE [era |-> 0, amount |-> 0, stakes |-> s]

(***************************************************************************)
(* UnbondingMetadata: the list of UnlockingChunk <<amount, unlock_era>>    *)
(***************************************************************************)
UnlockingChunk(amount, unlock_era) == [amount |-> amount, unlock_era |-> unlock_era]

RECURSIVE SumChunks(_)
SumChunks(c) == IF Len(c) = 0 THEN 0 ELSE c[1].amount + SumChunks(Tail(c))

\* slice::binary_search_by on unlock_era; positions are 0-based as in the
\* code: [found, pos]
RECURSIVE BinarySearch(_, _, _, _)
BinarySearch(c, unlock_era, left, right) ==
    IF left < right
    THEN LET mid == left + ((right - left) \div 2)
             x == c[mid + 1].unlock_era
         IN IF x < unlock_era THEN BinarySearch(c, unlock_era, mid + 1, right)
            ELSE IF x > unlock_era THEN BinarySearch(c, unlock_era, left, mid)
            ELSE [found |-> TRUE, pos |-> mid]
    ELSE [found |-> FALSE, pos |-> left]

InsertAt(c, pos, x) == SubSeq(c, 1, pos) \o <<x>> \o SubSeq(c, pos + 1, Len(c))

\* an add that always pushes a new chunk at the end
UnbondingAdd_Push(c, chunk) == Append(c, chunk)

\* UnbondingMetadata::add
UnbondingAdd(c, chunk) ==
    LET r == BinarySearch(c, chunk.unlock_era, 0, Len(c))
    IN IF r.found
       THEN [c EXCEPT ![r.pos + 1].amount = @ + chunk.amount]
       ELSE InsertAt(c, r.pos, chunk)

\* a limit that refuses the last permitted chunk
WithinUnlockingChunks_Strict(unbonding) == Len(unbonding) < MaxUnlockingChunks

\* the ensure! on the ledger after UnbondingMetadata::add, in
\* provider_bond_less and delegator_unstake
WithinUnlockingChunks(unbonding) == Len(unbonding) <= MaxUnlockingChunks

\* a chunk counted as matured one era early
ChunkMatured_Early(chunk, e) == chunk.unlock_era <= e + 1

\* a predicate that leaves out the chunks unlocking in the era itself
ChunkMatured_Strict(chunk, e) == chunk.unlock_era < e

\* the predicate of UnbondingMetadata::partition
ChunkMatured(chunk, e) == chunk.unlock_era <= e

\* UnbondingMetadata::partition: [valid, future]
UnbondingPartition(c, e) ==
    [valid |-> SelectSeq(c, LAMBDA x : ChunkMatured(x, e)),
     future |-> SelectSeq(c, LAMBDA x : ~ChunkMatured(x, e))]

(***************************************************************************)
(* EraInfo                                                                 *)
(***************************************************************************)
\* Default for EraInfo
EraInfoDefault == [current |-> 1, first_block |-> 1, length |-> 20]

\* an update only in the block where the era reaches its length exactly
should_update_Exact(e, now) == now - e.first_block = e.length

\* an update one block late
should_update_Late(e, now) == now - e.first_block > e.length

\* EraInfo::should_update
should_update(e, now) == now - e.first_block >= e.length

\* an update that forgets the starting block
EraUpdate_KeepFirstBlock(e, now) == [e EXCEPT !.current = e.current + 1]

\* EraInfo::update
EraUpdate(e, now) == [e EXCEPT !.current = e.current + 1, !.first_block = now]

(***************************************************************************)
(* Records of the storage maps                                             *)
(***************************************************************************)
EraMetadataDefault == [rewards |-> 0, staked |-> 0]
ProviderEraMetadataDefault ==
    [bond |-> 0, total |-> 0, delegator_count |-> 0, provider_reward_claimed |-> FALSE]
Active == [active |-> TRUE, era |-> 0]
Inactive(e) == [active |-> FALSE, era |-> e]
\* ProviderMetadata::new
ProviderMetadataNew(owner) == [owner |-> owner, status |-> Active, bond_withdrawn |-> FALSE]

\* StorageMap access: a key is present iff it is in the domain
Insert(m, k, v) == (k :> v) @@ m
GetOr(m, k, d) == IF k \in DOMAIN m THEN m[k] ELSE d

(***************************************************************************)
(* State                                                                   *)
(***************************************************************************)
VARIABLES
    block,              \* number of the block being executed (0: genesis)
    era,                \* Era
    era_state,          \* EraState: EraIndex -> EraMetadata
    reward_accumulator, \* RewardAccumulator
    provider_info,      \* ProviderInfo: ProviderId -> ProviderMetadata
    provider_era_info,  \* ProviderEraInfo: <<ProviderId, EraIndex>> -> ProviderEraMetadata
    delegation_info,    \* DelegationInfo: <<AccountId, ProviderId>> -> stakes
    unbonding_info,     \* UnbondingInfo: AccountId -> unlocking_chunks
    free,               \* Currency: free balance of every account
    reserved,           \* Currency: reserved balance of every account
    issuance,           \* Currency: total issuance
    collected,          \* history: sum of the amounts given to handle_imbalance
    paid_provider,      \* history: <<provider, era>> of the successful claim_provider calls
    last_paid,          \* history: era of the last successful claim_delegator per <<account, provider>>
    unbond_log,         \* history: per account, era of request -> amount unbonded and not yet withdrawn
    withdrawn,          \* history: providers whose provider_withdraw_unregistered succeeded
    calls,              \* history: number of successful transactions
    unit                \* a Delegation on its own: its stakes and the calls made on it

storage_vars == <<era, era_state, reward_accumulator, provider_info, provider_era_info,
                  delegation_info, unbonding_info, free, reserved, issuance>>
history_vars == <<collected, paid_provider, last_paid, unbond_log, withdrawn>>
vars == <<block, storage_vars, history_vars, calls, unit>>
pallet_vars == <<block, storage_vars, history_vars, calls>>

\* Delegation::default(), no call made yet
UnitInit == [stakes |-> <<>>, era |-> 0, ops |-> <<>>, returned |-> <<>>]

\* The pallet storage and the balances as one record
Storage ==
    [era |-> era, era_state |-> era_state, reward_accumulator |-> reward_accumulator,
     provider_info |-> provider_info, provider_era_info |-> provider_era_info,
     delegation_info |-> delegation_info, unbonding_info |-> unbonding_info,
     free |-> free, reserved |-> reserved, issuance |-> issuance]

EmptyMap == [k \in {} |-> 0]

(***************************************************************************)
(* Currency (ReservableCurrency) as the pallet uses it                     *)
(***************************************************************************)
\* Currency::reserve: [ok, s]
CurrencyReserve(s, who, amount) ==
    IF s.free[who] < amount
    THEN [ok |-> FALSE, s |-> s]
    ELSE [ok |-> TRUE,
          s |-> [s EXCEPT !.free[who] = @ - amount, !.reserved[who] = @ + amount]]

\* an unreserve that releases nothing
CurrencyUnreserve_Keep(s, who, amount) == s

\* Currency::unreserve: moves at most the reserved balance
CurrencyUnreserve(s, who, amount) ==
    LET actual == Min(s.reserved[who], amount)
    IN [s EXCEPT !.free[who] = @ + actual, !.reserved[who] = @ - actual]

\* Currency::withdraw(.., AllowDeath): [ok, s]; the imbalance is the amount
CurrencyWithdraw(s, who, amount) ==
    IF s.free[who] < amount
    THEN [ok |-> FALSE, s |-> s]
    ELSE [ok |-> TRUE, s |-> [s EXCEPT !.free[who] = @ - amount]]

\* Currency::resolve_creating
CurrencyResolveCreating(s, who, amount) == [s EXCEPT !.free[who] = @ + amount]

\* a payout that deposits without withdrawing from the pallet account
Payout_Mint(s, who, amount) ==
    [ok |-> TRUE, s |-> CurrencyResolveCreating(s, who, amount)]

\* the payout of a claim: Currency::withdraw from the pallet account, then
\* Currency::resolve_creating to the claimant: [ok, s]
Payout(s, who, amount) ==
    LET r == CurrencyWithdraw(s, Escrow, amount)
    IN IF ~r.ok THEN [ok |-> FALSE, s |-> r.s]
       ELSE [ok |-> TRUE, s |-> CurrencyResolveCreating(r.s, who, amount)]

\* Currency::issue
CurrencyIssue(s, amount) == [s EXCEPT !.issuance = @ + amount]

(***************************************************************************)
(* Helpers of the pallet                                                   *)
(***************************************************************************)
Ret(err, s, e, out) == [err |-> err, s |-> s, era |-> e, out |-> out]
Fail(err, s) == Ret(err, s, 0, 0)

current_era(s) == s.era.current

\* EraState::mutate(era, |value| if let Some(x) = value { x.staked += amount })
AddStaked(m, e, amount) ==
    IF e \in DOMAIN m THEN [m EXCEPT ![e].staked = @ + amount] ELSE m
\* a subtraction that leaves the era's staked value as it is
SubStaked_Keep(m, e, amount) == m

\* EraState::mutate(era, |value| if let Some(x) = value { x.staked -= amount })
SubStaked(m, e, amount) ==
    IF e \in DOMAIN m THEN [m EXCEPT ![e].staked = SatSub(@, amount)] ELSE m

\* a test that accepts every registered provider
is_active_provider_Registered(s, p) == p \in DOMAIN s.provider_info

is_active_provider(s, p) ==
    p \in DOMAIN s.provider_info /\ s.provider_info[p].status = Active

\* update_unbonding_info / update_delegation_info: an empty value removes the
\* key; both maps are ValueQuery, so a missing key reads as the empty value
update_unbonding_info(s, account, info) == [s EXCEPT !.unbonding_info[account] = info]
update_delegation_info(s, delegator, p, info) ==
    [s EXCEPT !.delegation_info[<<delegator, p>>] = info]

\* split_provider_delegators_rewards: <<provider part, delegators part>>
split_provider_delegators_rewards(pei, era_info) ==
    LET provider_rewards ==
            PerbillMul(PerbillFromRational(pei.total, era_info.staked), era_info.rewards)
        provider_reward_part == PerbillMul(ProviderRewardsPercentage, provider_rewards)
        delegators_reward_part == SatSub(provider_rewards, provider_reward_part)
    IN <<provider_reward_part, delegators_reward_part>>

\* a snapshot that starts the next era with nothing staked
snapshot_era_rewards_NoCarry(s, e) ==
    LET state == GetOr(s.era_state, e, EraMetadataDefault)
        m1 == Insert(s.era_state, e + 1, EraMetadataDefault)
        m2 == Insert(m1, e, [state EXCEPT !.rewards = s.reward_accumulator])
    IN [s EXCEPT !.era_state = m2, !.reward_accumulator = 0]

\* a snapshot that reads the accumulator without resetting it
snapshot_era_rewards_NoTake(s, e) ==
    LET state == GetOr(s.era_state, e, EraMetadataDefault)
        m1 == Insert(s.era_state, e + 1, [rewards |-> 0, staked |-> state.staked])
        m2 == Insert(m1, e, [state EXCEPT !.rewards = s.reward_accumulator])
    IN [s EXCEPT !.era_state = m2]

\* snapshot_era_rewards
snapshot_era_rewards(s, e) ==
    LET state == GetOr(s.era_state, e, EraMetadataDefault)
        m1 == Insert(s.era_state, e + 1, [rewards |-> 0, staked |-> state.staked])
        m2 == Insert(m1, e, [state EXCEPT !.rewards = s.reward_accumulator])
    IN [s EXCEPT !.era_state = m2, !.reward_accumulator = 0]

\* a next-era record that starts without delegators
RotatedRecord_NoDelegators(info) ==
    [info EXCEPT !.provider_reward_claimed = FALSE, !.delegator_count = 0]

\* the record rotate_provider_era_info stores for the next era
RotatedRecord(info) == [info EXCEPT !.provider_reward_claimed = FALSE]

\* rotate_provider_era_info
rotate_provider_era_info(s, e) ==
    LET rotating == {p \in DOMAIN s.provider_info :
                        /\ s.provider_info[p].status.active
                        /\ <<p, e>> \in DOMAIN s.provider_era_info}
        m == s.provider_era_info
        keys == DOMAIN m \cup {<<p, e + 1>> : p \in rotating}
    IN [s EXCEPT !.provider_era_info =
            [k \in keys |-> IF k[2] = e + 1 /\ k[1] \in rotating
                            THEN RotatedRecord(m[<<k[1], e>>])
                            ELSE m[k]]]

\* Hooks::on_initialize
on_initialize(s, n) ==
    IF should_update(s.era, n)
    THEN LET previous_era == s.era.current
             e1 == IF previous_era = 0
                   THEN [s.era EXCEPT !.length = DefaultBlocksPerEra]
                   ELSE s.era
             s1 == [s EXCEPT !.era = EraUpdate(e1, n)]
             s2 == snapshot_era_rewards(s1, previous_era)
         IN rotate_provider_era_info(s2, previous_era)
    ELSE s

\* handle_imbalance
handle_imbalance(s, amount) ==
    CurrencyResolveCreating([s EXCEPT !.reward_accumulator = @ + amount], Escrow, amount)

(***************************************************************************)
(* Dispatchables: each returns Ret(error, storage at return, era, amount)  *)
(***************************************************************************)
set_blocks_per_era(s, new) ==
    IF s.era.length = new THEN Fail("NoWritingSameValue", s)
    ELSE Ret("Ok", [s EXCEPT !.era.length = new], s.era.current, 0)

provider_bond_more(s, who, p, amount) ==
    IF ~(amount > 0) THEN Fail("StakingWithNoValue", s)
    ELSE IF p \notin DOMAIN s.provider_info THEN Fail("ProviderDNE", s)
    ELSE IF s.provider_info[p].status # Active THEN Fail("NotOperatedProvider", s)
    ELSE IF s.provider_info[p].owner # who THEN Fail("NotOwnedProvider", s)
    ELSE
      LET e == current_era(s)
          info == GetOr(s.provider_era_info, <<p, e>>, ProviderEraMetadataDefault)
          info1 == [info EXCEPT !.bond = @ + amount, !.total = @ + amount]
          r == CurrencyReserve(s, who, amount)
      IN IF ~r.ok THEN Fail("InsufficientBalance", r.s)
         ELSE LET s1 == [r.s EXCEPT !.era_state = AddStaked(@, e, amount)]
                  s2 == [s1 EXCEPT !.provider_era_info = Insert(@, <<p, e>>, info1)]
              IN Ret("Ok", s2, e, amount)

\* a test that lets the bond go down to zero
BondCoversLess_NoMinimum(bond, amount) == bond >= amount

\* the test "bond >= amount + MinProviderStake" of provider_bond_less
BondCoversLess(bond, amount) == bond >= amount + MinProviderStake

provider_bond_less(s, who, p, amount) ==
    IF ~(amount > 0) THEN Fail("UnstakingWithNoValue", s)
    ELSE IF p \notin DOMAIN s.provider_info THEN Fail("ProviderDNE", s)
    ELSE IF s.provider_info[p].status # Active THEN Fail("NotOperatedProvider", s)
    ELSE IF s.provider_info[p].owner # who THEN Fail("NotOwnedProvider", s)
    ELSE
      LET e == s.era.current
          info == GetOr(s.provider_era_info, <<p, e>>, ProviderEraMetadataDefault)
      IN IF ~BondCoversLess(info.bond, amount) THEN Fail("InsufficientBond", s)
         ELSE
           LET info1 == [info EXCEPT !.bond = SatSub(@, amount), !.total = SatSub(@, amount)]
               unbonding == UnbondingAdd(s.unbonding_info[who],
                                         UnlockingChunk(amount, e + UnbondingPeriod))
           IN IF ~WithinUnlockingChunks(unbonding)
              THEN Fail("TooManyUnlockingChunks", s)
              ELSE LET s1 == update_unbonding_info(s, who, unbonding)
                       s2 == [s1 EXCEPT !.era_state = SubStaked(@, e, amount)]
                       s3 == [s2 EXCEPT !.provider_era_info = Insert(@, <<p, e>>, info1)]
                   IN Ret("Ok", s3, e, amount)

\* the limit itself accepted
HasSpareEraStakeValue_Inclusive(stakes) == Len(stakes) <= MaxEraStakeValues

\* the check "delegation.len() < MaxEraStakeValues" of delegate and
\* delegator_unstake: one spot should remain
HasSpareEraStakeValue(stakes) == Len(stakes) < MaxEraStakeValues

delegate(s, delegator, p, amount) ==
    IF ~(amount > 0) THEN Fail("StakingWithNoValue", s)
    ELSE IF ~is_active_provider(s, p) THEN Fail("NotOperatedProvider", s)
    ELSE
      LET e == current_era(s)
          info == GetOr(s.provider_era_info, <<p, e>>, ProviderEraMetadataDefault)
          delegation == s.delegation_info[<<delegator, p>>]
          zero == latest_staked_value(delegation) = 0
      IN IF ~(~zero \/ info.delegator_count <= MaxDelegatorsPerProvider)
         THEN Fail("MaxNumberOfStakersExceeded", s)
         ELSE
           LET info1 == IF zero THEN [info EXCEPT !.delegator_count = @ + 1] ELSE info
               st == DelegationStake(delegation, e, amount)
           IN IF ~st.ok THEN Fail("UnexpectedDelegationInfoEra", s)
              ELSE IF ~HasSpareEraStakeValue(st.stakes)
              THEN Fail("TooManyEraStakeValues", s)
              ELSE IF ~(latest_staked_value(st.stakes) >= MinDelegatorStake)
              THEN Fail("InsufficientBond", s)
              ELSE
                LET info2 == [info1 EXCEPT !.total = @ + amount]
                    r == CurrencyReserve(s, delegator, amount)
                IN IF ~r.ok THEN Fail("InsufficientBalance", r.s)
                   ELSE LET s1 == [r.s EXCEPT !.era_state = AddStaked(@, e, amount)]
                            s2 == update_delegation_info(s1, delegator, p, st.stakes)
                            s3 == [s2 EXCEPT !.provider_era_info = Insert(@, <<p, e>>, info2)]
                        IN Ret("Ok", s3, e, amount)

\* an unstake that takes the whole position only when nothing would remain
BelowMinDelegatorStake_OnlyZero(remaining) == remaining = 0

\* the test "remaining < MinDelegatorStake" of delegator_unstake
BelowMinDelegatorStake(remaining) == remaining < MinDelegatorStake

delegator_unstake(s, delegator, p, amount) ==
    IF ~(amount > 0) THEN Fail("UnstakingWithNoValue", s)
    ELSE IF ~is_active_provider(s, p) THEN Fail("NotOperatedProvider", s)
    ELSE
      LET delegation == s.delegation_info[<<delegator, p>>]
          staked_amount == latest_staked_value(delegation)
      IN IF ~(staked_amount > 0) THEN Fail("NotStakedProvider", s)
         ELSE
           LET e == current_era(s)
               info == GetOr(s.provider_era_info, <<p, e>>, ProviderEraMetadataDefault)
               remaining == SatSub(staked_amount, amount)
               all == BelowMinDelegatorStake(remaining)
               unstake_amount == IF all THEN staked_amount ELSE amount
               info1 == IF all THEN [info EXCEPT !.delegator_count = SatSub(@, 1)] ELSE info
               info2 == [info1 EXCEPT !.total = SatSub(@, unstake_amount)]
               st == DelegationUnstake(delegation, e, unstake_amount)
           IN IF ~(unstake_amount > 0) THEN Fail("UnstakingWithNoValue", s)
              ELSE IF ~st.ok THEN Fail("UnexpectedDelegationInfoEra", s)
              ELSE IF ~HasSpareEraStakeValue(st.stakes)
              THEN Fail("TooManyEraStakeValues", s)
              ELSE
                LET unbonding == UnbondingAdd(s.unbonding_info[delegator],
                                     UnlockingChunk(unstake_amount, e + UnbondingPeriod))
                IN IF ~WithinUnlockingChunks(unbonding)
                   THEN Fail("TooManyUnlockingChunks", s)
                   ELSE LET s1 == update_unbonding_info(s, delegator, unbonding)
                            s2 == [s1 EXCEPT !.era_state = SubStaked(@, e, unstake_amount)]
                            s3 == update_delegation_info(s2, delegator, p, st.stakes)
                            s4 == [s3 EXCEPT !.provider_era_info = Insert(@, <<p, e>>, info2)]
                        IN Ret("Ok", s4, e, unstake_amount)

withdraw_unbonded(s, who) ==
    LET e == current_era(s)
        parts == UnbondingPartition(s.unbonding_info[who], e)
        amount == SumChunks(parts.valid)
    IN IF amount = 0 THEN Fail("NothingToWithdraw", s)
       ELSE LET s1 == CurrencyUnreserve(s, who, amount)
                s2 == update_unbonding_info(s1, who, parts.future)
            IN Ret("Ok", s2, e, amount)

\* the unregistration era itself accepted
ClaimableWhenInactive_Inclusive(e, unregistered_era) == e <= unregistered_era

\* the check on an unregistered provider in claim_provider / claim_delegator
ClaimableWhenInactive(e, unregistered_era) == e < unregistered_era

\* no check of the era at all
EraFinished_Unchecked(e, cur) == TRUE

\* the running era accepted
EraFinished_Inclusive(e, cur) == e <= cur

\* the check "era < current_era" in claim_provider / claim_delegator
EraFinished(e, cur) == e < cur

\* the flag is left as it was
ClaimedFlag_NotSet == FALSE

\* the flag claim_provider stores in the record of the claimed era
ClaimedFlag == TRUE

claim_provider(s, p, e) ==
    IF p \notin DOMAIN s.provider_info THEN Fail("NotOperatedProvider", s)
    ELSE
      LET pinfo == s.provider_info[p]
      IN IF ~pinfo.status.active /\ ~ClaimableWhenInactive(e, pinfo.status.era)
         THEN Fail("NotOperatedProvider", s)
         ELSE IF ~EraFinished(e, current_era(s)) THEN Fail("EraOutOfBounds", s)
         ELSE
           LET info == GetOr(s.provider_era_info, <<p, e>>, ProviderEraMetadataDefault)
           IN IF info.provider_reward_claimed THEN Fail("AlreadyClaimedInThisEra", s)
              ELSE IF ~(info.total > 0) THEN Fail("NotStakedProvider", s)
              ELSE IF e \notin DOMAIN s.era_state THEN Fail("UnknownEra", s)
              ELSE
                LET provider_reward ==
                        split_provider_delegators_rewards(info, s.era_state[e])[1]
                    r == Payout(s, pinfo.owner, provider_reward)
                IN IF ~r.ok THEN Fail("InsufficientBalance", r.s)
                   ELSE LET s1 == r.s
                            info1 == [info EXCEPT !.provider_reward_claimed = ClaimedFlag]
                            s2 == [s1 EXCEPT !.provider_era_info = Insert(@, <<p, e>>, info1)]
                        IN Ret("Ok", s2, e, provider_reward)

claim_delegator(s, delegator, p) ==
    LET c == DelegationClaim(s.delegation_info[<<delegator, p>>])
        e == c.era
        staked == c.amount
    IN IF ~(staked > 0) THEN Fail("NotStakedProvider", s)
       ELSE IF p \notin DOMAIN s.provider_info THEN Fail("NotOperatedProvider", s)
       ELSE IF /\ ~s.provider_info[p].status.active
               /\ ~ClaimableWhenInactive(e, s.provider_info[p].status.era)
       THEN Fail("NotOperatedProvider", s)
       ELSE IF ~EraFinished(e, current_era(s)) THEN Fail("EraOutOfBounds", s)
       ELSE
         LET info == GetOr(s.provider_era_info, <<p, e>>, ProviderEraMetadataDefault)
         IN IF e \notin DOMAIN s.era_state THEN Fail("UnknownEra", s)
            ELSE
              LET delegators_reward ==
                      split_provider_delegators_rewards(info, s.era_state[e])[2]
                  reward == PerbillMul(
                      PerbillFromRational(staked, SatSub(info.total, info.bond)),
                      delegators_reward)
                  r == Payout(s, delegator, reward)
              IN IF ~r.ok THEN Fail("InsufficientBalance", r.s)
                 ELSE LET s1 == r.s
                          s2 == update_delegation_info(s1, delegator, p, c.stakes)
                      IN Ret("Ok", s2, e, reward)

\* the unbonding period left out
UnbondingElapsed_NoPeriod(cur, unregistered_era) == cur >= unregistered_era

\* the check "current_era >= unregistered_era + UnbondingPeriod"
UnbondingElapsed(cur, unregistered_era) == cur >= unregistered_era + UnbondingPeriod

\* a withdrawal that also drops the era records of the provider
provider_withdraw_unregistered_Clears(s, p) ==
    IF p \notin DOMAIN s.provider_info THEN Fail("NotOperatedProvider", s)
    ELSE
      LET pinfo == s.provider_info[p]
      IN IF pinfo.bond_withdrawn THEN Fail("NothingToWithdraw", s)
         ELSE IF pinfo.status.active THEN Fail("NotUnregisteredProvider", s)
         ELSE IF ~UnbondingElapsed(current_era(s), pinfo.status.era)
         THEN Fail("NothingToWithdraw", s)
         ELSE
           LET unregistered_era == pinfo.status.era
               info == GetOr(s.provider_era_info, <<p, unregistered_era>>,
                             ProviderEraMetadataDefault)
               withdraw_amount == info.bond
               s1 == CurrencyUnreserve(s, pinfo.owner, withdraw_amount)
               s2 == [s1 EXCEPT !.provider_info[p].bond_withdrawn = TRUE]
               kept == {k \in DOMAIN s.provider_era_info : k[1] # p}
               s3 == [s2 EXCEPT !.provider_era_info = [k \in kept |-> s.provider_era_info[k]]]
           IN Ret("Ok", s3, unregistered_era, withdraw_amount)

provider_withdraw_unregistered(s, p) ==
    IF p \notin DOMAIN s.provider_info THEN Fail("NotOperatedProvider", s)
    ELSE
      LET pinfo == s.provider_info[p]
      IN IF pinfo.bond_withdrawn THEN Fail("NothingToWithdraw", s)
         ELSE IF pinfo.status.active THEN Fail("NotUnregisteredProvider", s)
         ELSE IF ~UnbondingElapsed(current_era(s), pinfo.status.era)
         THEN Fail("NothingToWithdraw", s)
         ELSE
           LET unregistered_era == pinfo.status.era
               info == GetOr(s.provider_era_info, <<p, unregistered_era>>,
                             ProviderEraMetadataDefault)
               withdraw_amount == info.bond
               s1 == CurrencyUnreserve(s, pinfo.owner, withdraw_amount)
               s2 == [s1 EXCEPT !.provider_info[p].bond_withdrawn = TRUE]
           IN Ret("Ok", s2, unregistered_era, withdraw_amount)

\* the claimable era not looked at
RewardsClaimed_Unchecked(claimable_era, unregistered_era) == claimable_era >= 0

\* the test "claimable_era >= unregistered_era || claimable_era.is_zero()"
RewardsClaimed(claimable_era, unregistered_era) ==
    claimable_era >= unregistered_era \/ claimable_era = 0

delegator_withdraw_unregistered(s, delegator, p) ==
    IF p \notin DOMAIN s.provider_info THEN Fail("NotOperatedProvider", s)
    ELSE IF s.provider_info[p].status.active THEN Fail("NotUnregisteredProvider", s)
    ELSE IF ~UnbondingElapsed(current_era(s), s.provider_info[p].status.era)
    THEN Fail("NothingToWithdraw", s)
    ELSE
      LET unregistered_era == s.provider_info[p].status.era
          delegation == s.delegation_info[<<delegator, p>>]
          staked_value == latest_staked_value(delegation)
          claimable_era == DelegationClaim(delegation).era
      IN IF ~(staked_value > 0) THEN Fail("NotStakedProvider", s)
         ELSE IF ~RewardsClaimed(claimable_era, unregistered_era)
         THEN Fail("UnclaimedRewardsRemaining", s)
         ELSE LET s1 == CurrencyUnreserve(s, delegator, staked_value)
                  s2 == update_delegation_info(s1, delegator, p, <<>>)
              IN Ret("Ok", s2, unregistered_era, staked_value)

\* a registration that stores the provider before it reserves the bond
register_provider_EarlyInsert(s, account, p, bond) ==
    IF p \in DOMAIN s.provider_info THEN Fail("ProviderExists", s)
    ELSE IF ~(bond >= MinProviderStake) THEN Fail("InsufficientBond", s)
    ELSE
      LET s1 == [s EXCEPT !.provider_info = Insert(@, p, ProviderMetadataNew(account))]
          r == CurrencyReserve(s1, account, bond)
      IN IF ~r.ok THEN Fail("InsufficientBalance", r.s)
         ELSE
           LET e == current_era(r.s)
               s2 == [r.s EXCEPT !.provider_era_info = Insert(@, <<p, e>>,
                         [bond |-> bond, total |-> bond, delegator_count |-> 0,
                          provider_reward_claimed |-> FALSE])]
               st == GetOr(s2.era_state, e, EraMetadataDefault)
               s3 == [s2 EXCEPT !.era_state = Insert(@, e, [st EXCEPT !.staked = @ + bond])]
           IN Ret("Ok", s3, e, bond)

\* a test that frees the id of an unregistered provider
ProviderExists_OnlyActive(s, p) == is_active_provider(s, p)

\* ProviderInfo::contains_key(provider_id)
ProviderExists(s, p) == p \in DOMAIN s.provider_info

\* DapiStakingRegistration::register_provider
register_provider(s, account, p, bond) ==
    IF ProviderExists(s, p) THEN Fail("ProviderExists", s)
    ELSE IF ~(bond >= MinProviderStake) THEN Fail("InsufficientBond", s)
    ELSE
      LET r == CurrencyReserve(s, account, bond)
      IN IF ~r.ok THEN Fail("InsufficientBalance", r.s)
         ELSE
           LET s1 == [r.s EXCEPT !.provider_info = Insert(@, p, ProviderMetadataNew(account))]
               e == current_era(s1)
               s2 == [s1 EXCEPT !.provider_era_info = Insert(@, <<p, e>>,
                         [bond |-> bond, total |-> bond, delegator_count |-> 0,
                          provider_reward_claimed |-> FALSE])]
               st == GetOr(s2.era_state, e, EraMetadataDefault)
               s3 == [s2 EXCEPT !.era_state = Insert(@, e, [st EXCEPT !.staked = @ + bond])]
           IN Ret("Ok", s3, e, bond)

\* an unregistration without the test of the status
unregister_provider_Again(s, p) ==
    IF p \notin DOMAIN s.provider_info THEN Fail("ProviderDNE", s)
    ELSE
      LET e == current_era(s)
          s1 == [s EXCEPT !.provider_info[p].status = Inactive(e)]
          info == GetOr(s1.provider_era_info, <<p, e>>, ProviderEraMetadataDefault)
          s2 == [s1 EXCEPT !.era_state = SubStaked(@, e, info.total)]
      IN Ret("Ok", s2, e, info.total)

\* DapiStakingRegistration::unregister_provider
unregister_provider(s, p) ==
    IF p \notin DOMAIN s.provider_info THEN Fail("ProviderDNE", s)
    ELSE IF s.provider_info[p].status # Active THEN Fail("NotOperatedProvider", s)
    ELSE
      LET e == current_era(s)
          s1 == [s EXCEPT !.provider_info[p].status = Inactive(e)]
          info == GetOr(s1.provider_era_info, <<p, e>>, ProviderEraMetadataDefault)
          s2 == [s1 EXCEPT !.era_state = SubStaked(@, e, info.total)]
      IN Ret("Ok", s2, e, info.total)

(***************************************************************************)
(* Initial state: default storage, genesis balances                        *)
(***************************************************************************)
Init ==
    /\ block = 0
    /\ era = EraInfoDefault
    /\ era_state = EmptyMap
    /\ reward_accumulator = 0
    /\ provider_info = EmptyMap
    /\ provider_era_info = EmptyMap
    /\ delegation_info = [k \in Accounts \X Providers |-> <<>>]
    /\ unbonding_info = [a \in Accounts |-> <<>>]
    /\ free = [a \in AllAccounts |-> IF a = Escrow THEN 0 ELSE InitialBalance]
    /\ reserved = [a \in AllAccounts |-> 0]
    /\ issuance = InitialBalance * Cardinality(Accounts)
    /\ collected = 0
    /\ paid_provider = {}
    /\ last_paid = [k \in Accounts \X Providers |-> 0]
    /\ unbond_log = [a \in Accounts |-> EmptyMap]
    /\ withdrawn = {}
    /\ calls = 0
    /\ unit = UnitInit

\* the storage after a call is the storage the handler returned
Apply(s) ==
    /\ era' = s.era
    /\ era_state' = s.era_state
    /\ reward_accumulator' = s.reward_accumulator
    /\ provider_info' = s.provider_info
    /\ provider_era_info' = s.provider_era_info
    /\ delegation_info' = s.delegation_info
    /\ unbonding_info' = s.unbonding_info
    /\ free' = s.free
    /\ reserved' = s.reserved
    /\ issuance' = s.issuance

\* history of the unbonding requests
LogUnbond(log, who, e, amount) ==
    [log EXCEPT ![who] = Insert(@, e, GetOr(@, e, 0) + amount)]
LogWithdraw(log, who, cur) ==
    [log EXCEPT ![who] = [e \in {x \in DOMAIN @ : x + UnbondingPeriod > cur} |-> @[e]]]

(***************************************************************************)
(* Actions                                                                 *)
(***************************************************************************)
\* a signed or root call in a block: the storage becomes the one the handler
\* returned; successful calls are counted to bound the run
Call(r) ==
    /\ block >= 1
    /\ calls < MaxCalls
    /\ Apply(r.s)
    /\ calls' = IF r.err = "Ok" THEN calls + 1 ELSE calls

\* the host starts the next block and calls on_initialize with its number
NextBlockUpTo(bound) ==
    /\ block < bound
    /\ block' = block + 1
    /\ Apply(on_initialize(Storage, block + 1))
    /\ UNCHANGED <<history_vars, calls, unit>>

NextBlock == NextBlockUpTo(MaxBlock)

\* a reward is issued and handed to the pallet
HandleImbalanceIn(inputs, budget) ==
    \E amount \in inputs :
        /\ block >= 1
        /\ collected + amount <= budget
        /\ Apply(handle_imbalance(CurrencyIssue(Storage, amount), amount))
        /\ collected' = collected + amount
        /\ UNCHANGED <<unit, block, paid_provider, last_paid, unbond_log, withdrawn, calls>>

HandleImbalance == HandleImbalanceIn(RewardInputs, MaxCollected)

SetBlocksPerEraIn(lengths) ==
    \E new \in lengths :
        /\ block >= 1
        /\ Apply(set_blocks_per_era(Storage, new).s)
        /\ UNCHANGED <<unit, block, history_vars, calls>>

SetBlocksPerEra == SetBlocksPerEraIn(LengthInputs)

RegisterProvider ==
    \E account \in Accounts, p \in Providers, bond \in BondInputs :
        /\ Call(register_provider(Storage, account, p, bond))
        /\ UNCHANGED <<unit, block, history_vars>>

UnregisterProvider ==
    \E p \in Providers :
        /\ Call(unregister_provider(Storage, p))
        /\ UNCHANGED <<unit, block, history_vars>>

ProviderBondMore ==
    \E who \in Accounts, p \in Providers, amount \in AmountInputs :
        /\ Call(provider_bond_more(Storage, who, p, amount))
        /\ UNCHANGED <<unit, block, history_vars>>

ProviderBondLess ==
    \E who \in Accounts, p \in Providers, amount \in AmountInputs :
        LET r == provider_bond_less(Storage, who, p, amount)
        IN /\ Call(r)
           /\ unbond_log' = IF r.err = "Ok"
                            THEN LogUnbond(unbond_log, who, era.current, r.out)
                            ELSE unbond_log
           /\ UNCHANGED <<unit, block, collected, paid_provider, last_paid, withdrawn>>

Delegate ==
    \E delegator \in Accounts, p \in Providers, amount \in AmountInputs :
        /\ Call(delegate(Storage, delegator, p, amount))
        /\ UNCHANGED <<unit, block, history_vars>>

DelegatorUnstake ==
    \E delegator \in Accounts, p \in Providers, amount \in AmountInputs :
        LET r == delegator_unstake(Storage, delegator, p, amount)
        IN /\ Call(r)
           /\ unbond_log' = IF r.err = "Ok"
                            THEN LogUnbond(unbond_log, delegator, era.current, r.out)
                            ELSE unbond_log
           /\ UNCHANGED <<unit, block, collected, paid_provider, last_paid, withdrawn>>

WithdrawUnbonded ==
    \E who \in Accounts :
        LET r == withdraw_unbonded(Storage, who)
        IN /\ Call(r)
           /\ unbond_log' = IF r.err = "Ok"
                            THEN LogWithdraw(unbond_log, who, era.current)
                            ELSE unbond_log
           /\ UNCHANGED <<unit, block, collected, paid_provider, last_paid, withdrawn>>

ClaimProvider ==
    \E p \in Providers, e \in EraInputs :
        LET r == claim_provider(Storage, p, e)
        IN /\ Call(r)
           /\ paid_provider' = IF r.err = "Ok" THEN paid_provider \cup {<<p, e>>}
                               ELSE paid_provider
           /\ UNCHANGED <<unit, block, collected, last_paid, unbond_log, withdrawn>>

ClaimDelegator ==
    \E delegator \in Accounts, p \in Providers :
        LET r == claim_delegator(Storage, delegator, p)
        IN /\ Call(r)
           /\ last_paid' = IF r.err = "Ok"
                           THEN [last_paid EXCEPT ![<<delegator, p>>] = r.era]
                           ELSE last_paid
           /\ UNCHANGED <<unit, block, collected, paid_provider, unbond_log, withdrawn>>

ProviderWithdrawUnregistered ==
    \E p \in Providers :
        LET r == provider_withdraw_unregistered(Storage, p)
        IN /\ Call(r)
           /\ withdrawn' = IF r.err = "Ok" THEN withdrawn \cup {p} ELSE withdrawn
           /\ UNCHANGED <<unit, block, collected, paid_provider, last_paid, unbond_log>>

DelegatorWithdrawUnregistered ==
    \E delegator \in Accounts, p \in Providers :
        /\ Call(delegator_withdraw_unregistered(Storage, delegator, p))
        /\ UNCHANGED <<unit, block, history_vars>>

Next ==
    \/ NextBlock
    \/ HandleImbalance
    \/ SetBlocksPerEra
    \/ RegisterProvider
    \/ UnregisterProvider
    \/ ProviderBondMore
    \/ ProviderBondLess
    \/ Delegate
    \/ DelegatorUnstake
    \/ WithdrawUnbonded
    \/ ClaimProvider
    \/ ClaimDelegator
    \/ ProviderWithdrawUnregistered
    \/ DelegatorWithdrawUnregistered

Spec == Init /\ [][Next]_vars

(***************************************************************************)
(* The era state machine and the reward accumulator on their own: more     *)
(* blocks, more rewards and more era lengths, with the registration that   *)
(* creates EraState entries.                                               *)
(***************************************************************************)
EraNextBlock == NextBlockUpTo(MaxBlockEra)
EraHandleImbalance == HandleImbalanceIn(EraRewardInputs, MaxCollectedEra)
EraSetBlocksPerEra == SetBlocksPerEraIn(EraLengthInputs)

NextEra ==
    \/ EraNextBlock
    \/ EraHandleImbalance
    \/ EraSetBlocksPerEra
    \/ RegisterProvider

SpecEra == Init /\ [][NextEra]_vars

(***************************************************************************)
(* Staking on one provider on its own: three accounts, more blocks and     *)
(* more calls, so that ledgers grow to their limits and a reward is split  *)
(* three ways.                                                             *)
(***************************************************************************)
StakeAccounts == Accounts \cup {"a3"}
StakeProviders == {"p1"}
StakeOwners == {"a1"}
StakeRewardInputs == {MinDelegatorStake}

InitStake ==
    /\ block = 0
    /\ era = EraInfoDefault
    /\ era_state = EmptyMap
    /\ reward_accumulator = 0
    /\ provider_info = EmptyMap
    /\ provider_era_info = EmptyMap
    /\ delegation_info = [k \in StakeAccounts \X StakeProviders |-> <<>>]
    /\ unbonding_info = [a \in StakeAccounts |-> <<>>]
    /\ free = [a \in StakeAccounts \cup {Escrow} |-> IF a = Escrow THEN 0 ELSE StakeBalance]
    /\ reserved = [a \in StakeAccounts \cup {Escrow} |-> 0]
    /\ issuance = StakeBalance * Cardinality(StakeAccounts)
    /\ collected = 0
    /\ paid_provider = {}
    /\ last_paid = [k \in StakeAccounts \X StakeProviders |-> 0]
    /\ unbond_log = [a \in StakeAccounts |-> EmptyMap]
    /\ withdrawn = {}
    /\ calls = 0
    /\ unit = UnitInit

StakeCall(r) ==
    /\ block >= 1
    /\ calls < MaxCallsStake
    /\ r.err = "Ok"
    /\ Apply(r.s)
    /\ calls' = calls + 1

StakeNextBlock == NextBlockUpTo(MaxBlockStake)
StakeHandleImbalance == HandleImbalanceIn(StakeRewardInputs, MaxCollectedStake)
StakeSetBlocksPerEra == SetBlocksPerEraIn(LengthInputs)

StakeRegisterProvider ==
    \E account \in StakeOwners, p \in StakeProviders :
        /\ StakeCall(register_provider(Storage, account, p, MinProviderStake))
        /\ UNCHANGED <<unit, block, history_vars>>

StakeDelegate ==
    \E delegator \in StakeAccounts, p \in StakeProviders :
        /\ StakeCall(delegate(Storage, delegator, p, MinDelegatorStake))
        /\ UNCHANGED <<unit, block, history_vars>>

StakeDelegatorUnstake ==
    \E delegator \in StakeAccounts, p \in StakeProviders :
        LET r == delegator_unstake(Storage, delegator, p, MinDelegatorStake)
        IN /\ StakeCall(r)
           /\ unbond_log' = LogUnbond(unbond_log, delegator, era.current, r.out)
           /\ UNCHANGED <<unit, block, collected, paid_provider, last_paid, withdrawn>>

StakeWithdrawUnbonded ==
    \E who \in StakeAccounts :
        /\ StakeCall(withdraw_unbonded(Storage, who))
        /\ unbond_log' = LogWithdraw(unbond_log, who, era.current)
        /\ UNCHANGED <<unit, block, collected, paid_provider, last_paid, withdrawn>>

StakeClaimDelegator ==
    \E delegator \in StakeAccounts, p \in StakeProviders :
        LET r == claim_delegator(Storage, delegator, p)
        IN /\ StakeCall(r)
           /\ last_paid' = [last_paid EXCEPT ![<<delegator, p>>] = r.era]
           /\ UNCHANGED <<unit, block, collected, paid_provider, unbond_log, withdrawn>>

NextStake ==
    \/ StakeNextBlock
    \/ StakeHandleImbalance
    \/ StakeSetBlocksPerEra
    \/ StakeRegisterProvider
    \/ StakeDelegate
    \/ StakeDelegatorUnstake
    \/ StakeWithdrawUnbonded
    \/ StakeClaimDelegator

SpecStake == InitStake /\ [][NextStake]_vars

(***************************************************************************)
(* One provider and more accounts than MaxDelegatorsPerProvider, each with *)
(* the funds for one delegation.                                           *)
(***************************************************************************)
CrowdAccounts == {"a1", "a2", "a3", "a4", "a5", "a6", "a7"}
CrowdProviders == {"p1"}
CrowdOwners == {"a1"}

InitCrowd ==
    /\ block = 0
    /\ era = EraInfoDefault
    /\ era_state = EmptyMap
    /\ reward_accumulator = 0
    /\ provider_info = EmptyMap
    /\ provider_era_info = EmptyMap
    /\ delegation_info = [k \in CrowdAccounts \X CrowdProviders |-> <<>>]
    /\ unbonding_info = [a \in CrowdAccounts |-> <<>>]
    /\ free = [a \in CrowdAccounts \cup {Escrow} |-> IF a = Escrow THEN 0 ELSE InitialBalance]
    /\ reserved = [a \in CrowdAccounts \cup {Escrow} |-> 0]
    /\ issuance = InitialBalance * Cardinality(CrowdAccounts)
    /\ collected = 0
    /\ paid_provider = {}
    /\ last_paid = [k \in CrowdAccounts \X CrowdProviders |-> 0]
    /\ unbond_log = [a \in CrowdAccounts |-> EmptyMap]
    /\ withdrawn = {}
    /\ calls = 0
    /\ unit = UnitInit

CrowdCall(r) ==
    /\ block >= 1
    /\ calls < MaxCallsCrowd
    /\ r.err = "Ok"
    /\ Apply(r.s)
    /\ calls' = calls + 1

CrowdNextBlock == NextBlockUpTo(MaxBlockCrowd)

CrowdRegisterProvider ==
    \E account \in CrowdOwners, p \in CrowdProviders :
        /\ CrowdCall(register_provider(Storage, account, p, MinProviderStake))
        /\ UNCHANGED <<unit, block, history_vars>>

CrowdDelegate ==
    \E delegator \in CrowdAccounts, p \in CrowdProviders :
        /\ CrowdCall(delegate(Storage, delegator, p, MinDelegatorStake))
        /\ UNCHANGED <<unit, block, history_vars>>

CrowdDelegatorUnstake ==
    \E delegator \in CrowdAccounts, p \in CrowdProviders :
        LET r == delegator_unstake(Storage, delegator, p, MinDelegatorStake)
        IN /\ CrowdCall(r)
           /\ unbond_log' = LogUnbond(unbond_log, delegator, era.current, r.out)
           /\ UNCHANGED <<unit, block, collected, paid_provider, last_paid, withdrawn>>

NextCrowd ==
    \/ CrowdNextBlock
    \/ CrowdRegisterProvider
    \/ CrowdDelegate
    \/ CrowdDelegatorUnstake

SpecCrowd == InitCrowd /\ [][NextCrowd]_vars

(***************************************************************************)
(* One provider whose owner bonds above the minimum and one delegator, to   *)
(* fill the unbonding ledgers: eras of one block, repeated provider_bond_less *)
(* and delegator_unstake, and withdraw_unbonded.                            *)
(***************************************************************************)
UnbondProviders == {"p1"}
UnbondOwners == {"a1"}
UnbondDelegators == {"a2"}
UnbondBond == MinProviderStake + 10
UnbondLess == 3

UnbondCall(r) ==
    /\ block >= 1
    /\ calls < MaxCallsUnbond
    /\ r.err = "Ok"
    /\ Apply(r.s)
    /\ calls' = calls + 1

UnbondNextBlock == NextBlockUpTo(MaxBlockUnbond)
UnbondSetBlocksPerEra == SetBlocksPerEraIn(LengthInputs)

UnbondRegisterProvider ==
    \E account \in UnbondOwners, p \in UnbondProviders :
        /\ UnbondCall(register_provider(Storage, account, p, UnbondBond))
        /\ UNCHANGED <<unit, block, history_vars>>

UnbondProviderBondLess ==
    \E who \in UnbondOwners, p \in UnbondProviders :
        LET r == provider_bond_less(Storage, who, p, UnbondLess)
        IN /\ UnbondCall(r)
           /\ unbond_log' = LogUnbond(unbond_log, who, era.current, r.out)
           /\ UNCHANGED <<unit, block, collected, paid_provider, last_paid, withdrawn>>

UnbondDelegate ==
    \E delegator \in UnbondDelegators, p \in UnbondProviders :
        /\ UnbondCall(delegate(Storage, delegator, p, InitialBalance))
        /\ UNCHANGED <<unit, block, history_vars>>

UnbondDelegatorUnstake ==
    \E delegator \in UnbondDelegators, p \in UnbondProviders :
        LET r == delegator_unstake(Storage, delegator, p, 1)
        IN /\ UnbondCall(r)
           /\ unbond_log' = LogUnbond(unbond_log, delegator, era.current, r.out)
           /\ UNCHANGED <<unit, block, collected, paid_provider, last_paid, withdrawn>>

UnbondWithdrawUnbonded ==
    \E who \in UnbondOwners \cup UnbondDelegators :
        /\ UnbondCall(withdraw_unbonded(Storage, who))
        /\ unbond_log' = LogWithdraw(unbond_log, who, era.current)
        /\ UNCHANGED <<unit, block, collected, paid_provider, last_paid, withdrawn>>

NextUnbond ==
    \/ UnbondNextBlock
    \/ UnbondSetBlocksPerEra
    \/ UnbondRegisterProvider
    \/ UnbondProviderBondLess
    \/ UnbondDelegate
    \/ UnbondDelegatorUnstake
    \/ UnbondWithdrawUnbonded

SpecUnbond == Init /\ [][NextUnbond]_vars

(***************************************************************************)
(* Progress of the eras: on_initialize runs for every block, so the block   *)
(* step is weakly fair; the calls are those that start and end an unbonding *)
(* period.                                                                  *)
(***************************************************************************)
LiveCall(r) ==
    /\ block >= 1
    /\ calls < MaxCallsLive
    /\ r.err = "Ok"
    /\ Apply(r.s)
    /\ calls' = calls + 1

LiveNextBlock == NextBlockUpTo(MaxBlockLive)
LiveSetBlocksPerEra == SetBlocksPerEraIn(LengthInputs)

LiveRegisterProvider ==
    \E account \in UnbondOwners, p \in UnbondProviders :
        /\ LiveCall(register_provider(Storage, account, p, MinProviderStake))
        /\ UNCHANGED <<unit, block, history_vars>>

LiveUnregisterProvider ==
    \E p \in UnbondProviders :
        /\ LiveCall(unregister_provider(Storage, p))
        /\ UNCHANGED <<unit, block, history_vars>>

LiveDelegate ==
    \E delegator \in UnbondDelegators, p \in UnbondProviders :
        /\ LiveCall(delegate(Storage, delegator, p, MinDelegatorStake))
        /\ UNCHANGED <<unit, block, history_vars>>

LiveDelegatorUnstake ==
    \E delegator \in UnbondDelegators, p \in UnbondProviders :
        LET r == delegator_unstake(Storage, delegator, p, MinDelegatorStake)
        IN /\ LiveCall(r)
           /\ unbond_log' = LogUnbond(unbond_log, delegator, era.current, r.out)
           /\ UNCHANGED <<unit, block, collected, paid_provider, last_paid, withdrawn>>

LiveWithdrawUnbonded ==
    \E who \in UnbondDelegators :
        /\ LiveCall(withdraw_unbonded(Storage, who))
        /\ unbond_log' = LogWithdraw(unbond_log, who, era.current)
        /\ UNCHANGED <<unit, block, collected, paid_provider, last_paid, withdrawn>>

LiveProviderWithdrawUnregistered ==
    \E p \in UnbondProviders :
        /\ LiveCall(provider_withdraw_unregistered(Storage, p))
        /\ withdrawn' = withdrawn \cup {p}
        /\ UNCHANGED <<unit, block, collected, paid_provider, last_paid, unbond_log>>

NextLive ==
    \/ LiveNextBlock
    \/ LiveSetBlocksPerEra
    \/ LiveRegisterProvider
    \/ LiveUnregisterProvider
    \/ LiveDelegate
    \/ LiveDelegatorUnstake
    \/ LiveWithdrawUnbonded
    \/ LiveProviderWithdrawUnregistered

SpecLive == Init /\ [][NextLive]_vars /\ WF_vars(LiveNextBlock)

(***************************************************************************)
(* One provider with three delegators whose rewards are all claimed: the   *)
(* accounts and the initial state of the staking specification, with        *)
(* claim_provider and enough calls for every party to claim an era.         *)
(***************************************************************************)
EscrowCall(r) ==
    /\ block >= 1
    /\ calls < MaxCallsEscrow
    /\ r.err = "Ok"
    /\ Apply(r.s)
    /\ calls' = calls + 1

EscrowNextBlock == NextBlockUpTo(MaxBlockEscrow)
EscrowHandleImbalance == HandleImbalanceIn(StakeRewardInputs, MaxCollectedEscrow)
EscrowSetBlocksPerEra == SetBlocksPerEraIn(LengthInputs)

EscrowRegisterProvider ==
    \E account \in StakeOwners, p \in StakeProviders :
        /\ EscrowCall(register_provider(Storage, account, p, MinProviderStake))
        /\ UNCHANGED <<unit, block, history_vars>>

EscrowDelegate ==
    \E delegator \in StakeAccounts, p \in StakeProviders :
        /\ EscrowCall(delegate(Storage, delegator, p, MinDelegatorStake))
        /\ UNCHANGED <<unit, block, history_vars>>

EscrowClaimProvider ==
    \E p \in StakeProviders, e \in 1..MaxBlockEscrow :
        /\ EscrowCall(claim_provider(Storage, p, e))
        /\ paid_provider' = paid_provider \cup {<<p, e>>}
        /\ UNCHANGED <<unit, block, collected, last_paid, unbond_log, withdrawn>>

EscrowClaimDelegator ==
    \E delegator \in StakeAccounts, p \in StakeProviders :
        LET r == claim_delegator(Storage, delegator, p)
        IN /\ EscrowCall(r)
           /\ last_paid' = [last_paid EXCEPT ![<<delegator, p>>] = r.era]
           /\ UNCHANGED <<unit, block, collected, paid_provider, unbond_log, withdrawn>>

NextEscrow ==
    \/ EscrowNextBlock
    \/ EscrowHandleImbalance
    \/ EscrowSetBlocksPerEra
    \/ EscrowRegisterProvider
    \/ EscrowDelegate
    \/ EscrowClaimProvider
    \/ EscrowClaimDelegator

SpecEscrow == InitStake /\ [][NextEscrow]_vars

(***************************************************************************)
(* A Delegation on its own: stake and unstake calls with non-decreasing    *)
(* eras, followed by claim calls.  unit.ops is the sequence of the calls   *)
(* made and unit.returned the sequence of the pairs the claims returned.   *)
(***************************************************************************)
LedgerEras == 5..7
LedgerAmounts == {300, 1000}

StakeOp(e, amount) == [op |-> "stake", era |-> e, amount |-> amount]
UnstakeOp(e, amount) == [op |-> "unstake", era |-> e, amount |-> amount]
ClaimOp == [op |-> "claim", era |-> 0, amount |-> 0]

LedgerStake ==
    \E e \in LedgerEras, amount \in LedgerAmounts :
        LET r == DelegationStake(unit.stakes, e, amount)
        IN /\ Len(unit.ops) < MaxLedgerOps
           /\ unit.returned = <<>>
           /\ e >= unit.era
           /\ r.ok
           /\ unit' = [unit EXCEPT !.stakes = r.stakes, !.era = e,
                                    !.ops = Append(@, StakeOp(e, amount))]
           /\ UNCHANGED pallet_vars

\* the pallet unstakes at most what is staked
LedgerUnstake ==
    \E e \in LedgerEras,
       amount \in LedgerAmounts \cup {latest_staked_value(unit.stakes)} :
        LET r == DelegationUnstake(unit.stakes, e, amount)
        IN /\ Len(unit.ops) < MaxLedgerOps
           /\ unit.returned = <<>>
           /\ e >= unit.era
           /\ amount > 0
           /\ amount <= latest_staked_value(unit.stakes)
           /\ r.ok
           /\ unit' = [unit EXCEPT !.stakes = r.stakes, !.era = e,
                                    !.ops = Append(@, UnstakeOp(e, amount))]
           /\ UNCHANGED pallet_vars

LedgerClaim ==
    LET r == DelegationClaim(unit.stakes)
    IN /\ Len(unit.ops) < MaxLedgerOps
       /\ unit.ops # <<>>
       /\ unit' = [unit EXCEPT !.stakes = r.stakes,
                                !.ops = Append(@, ClaimOp),
                                !.returned = Append(@, <<r.era, r.amount>>)]
       /\ UNCHANGED pallet_vars

NextLedger ==
    \/ LedgerStake
    \/ LedgerUnstake
    \/ LedgerClaim

SpecLedger == Init /\ [][NextLedger]_vars

(***************************************************************************)
(* Properties                                                              *)
(***************************************************************************)
RECURSIVE SumOver(_, _)
\* the sum of f[k] over k in S
SumOver(f, S) ==
    IF S = {} THEN 0
    ELSE LET k == CHOOSE x \in S : TRUE IN f[k] + SumOver(f, S \ {k})

TotalBalance(fr, rs) == SumOver(fr, AllAccounts) + SumOver(rs, AllAccounts)

\* C1: once claim_provider(p, e) has succeeded, every later claim_provider(p, e),
\* whatever operations and era rollovers happened since, fails with
\* AlreadyClaimedInThisEra and leaves storage and balances as they are.
C1_ClaimProviderOnce ==
    \A pe \in paid_provider :
        LET r == claim_provider(Storage, pe[1], pe[2])
        IN r.err = "AlreadyClaimedInThisEra" /\ r.s = Storage

\* a provider claim succeeded for an era and at least one rollover followed
\* the era in which it could first be made
C1_Witness ==
    \E pe \in paid_provider :
        /\ era.current > pe[2] + 1
        /\ claim_provider(Storage, pe[1], pe[2]).err = "AlreadyClaimedInThisEra"

RewardsSum(m) == SumOver([e \in DOMAIN m |-> m[e].rewards], DOMAIN m)

\* C4: after every step the rewards of all eras plus the reward accumulator
\* add up to everything given to handle_imbalance; after a step that starts
\* a new era the accumulator is zero, so the per-era rewards alone add up to
\* everything collected.
C4_NoLostRewards ==
    [][/\ RewardsSum(era_state') + reward_accumulator' = collected'
       /\ era'.current # era.current =>
             reward_accumulator' = 0 /\ RewardsSum(era_state') = collected']_vars

\* rewards were collected in two different eras and have been snapshotted
C4_Witness ==
    /\ Cardinality({e \in DOMAIN era_state : era_state[e].rewards > 0}) >= 2
    /\ reward_accumulator > 0

\* C2: a successful claim_delegator pays for an era strictly greater than the
\* era of the previous successful claim of the same delegator on the same
\* provider.
C2_DelegatorClaimErasIncrease ==
    \A d \in Accounts, p \in Providers :
        LET r == claim_delegator(Storage, d, p)
        IN r.err = "Ok" => r.era > last_paid[<<d, p>>]

\* a delegator has been paid for an era and can be paid for a next one
C2_Witness ==
    \E d \in Accounts, p \in Providers :
        /\ last_paid[<<d, p>>] > 0
        /\ claim_delegator(Storage, d, p).err = "Ok"

\* the effect of a payout of out from the pallet account to who
PaidFromEscrow(s, who, out) ==
    /\ s.issuance = issuance
    /\ TotalBalance(s.free, s.reserved) = issuance
    /\ s.reserved = reserved
    /\ s.free = [a \in AllAccounts |->
                    IF a = Escrow THEN free[a] - out
                    ELSE IF a = who THEN free[a] + out ELSE free[a]]

\* C3: a successful claim_provider or claim_delegator leaves the total
\* issuance unchanged: the pallet account's balance decreases by the payout
\* and the claimant's free balance increases by the same amount; no other
\* balance changes and the balances still add up to the issuance.
C3_ClaimsMoveFundsFromEscrow ==
    /\ \A p \in Providers, e \in EraInputs :
          LET r == claim_provider(Storage, p, e)
          IN r.err = "Ok" => PaidFromEscrow(r.s, provider_info[p].owner, r.out)
    /\ \A d \in Accounts, p \in Providers :
          LET r == claim_delegator(Storage, d, p)
          IN r.err = "Ok" => PaidFromEscrow(r.s, d, r.out)

\* a provider claim and a delegator claim with a non-zero payout are possible
C3_Witness ==
    /\ \E p \in Providers, e \in EraInputs :
          LET r == claim_provider(Storage, p, e) IN r.err = "Ok" /\ r.out > 0
    /\ \E d \in Accounts, p \in Providers :
          LET r == claim_delegator(Storage, d, p) IN r.err = "Ok" /\ r.out > 0

AllAmounts == AmountInputs \cup BondInputs

\* an error return hands back the storage of the call
NoOp(r) == r.err # "Ok" => r.s = Storage

\* C5: every staking operation that returns an error returns with all pallet
\* storage and every free and reserved balance as they were at the call.
C5_ErrorsChangeNothing ==
    /\ \A new \in LengthInputs \cup EraLengthInputs \cup {20} :
          NoOp(set_blocks_per_era(Storage, new))
    /\ \A a \in Accounts, p \in Providers, amount \in AllAmounts :
          /\ NoOp(register_provider(Storage, a, p, amount))
          /\ NoOp(provider_bond_more(Storage, a, p, amount))
          /\ NoOp(provider_bond_less(Storage, a, p, amount))
          /\ NoOp(delegate(Storage, a, p, amount))
          /\ NoOp(delegator_unstake(Storage, a, p, amount))
    /\ \A a \in Accounts : NoOp(withdraw_unbonded(Storage, a))
    /\ \A p \in Providers :
          /\ NoOp(unregister_provider(Storage, p))
          /\ NoOp(provider_withdraw_unregistered(Storage, p))
          /\ \A e \in EraInputs : NoOp(claim_provider(Storage, p, e))
          /\ \A a \in Accounts :
                /\ NoOp(claim_delegator(Storage, a, p))
                /\ NoOp(delegator_withdraw_unregistered(Storage, a, p))

\* calls fail at the last step that can fail, the reserve, after the checks
\* on the in-memory copies have passed
C5_Witness ==
    /\ \E a \in Accounts, p \in Providers :
          register_provider(Storage, a, p, MinProviderStake).err = "InsufficientBalance"
    /\ \E a \in Accounts, p \in Providers :
          delegate(Storage, a, p, MinDelegatorStake).err = "InsufficientBalance"

LogSum(log) == SumOver(log, DOMAIN log)
MaturedLogSum(log, cur) == SumOver(log, {e \in DOMAIN log : e + UnbondingPeriod <= cur})

\* C6: what an account unbonded in era e and has not withdrawn is still in
\* its unbonding ledger and still reserved; a successful withdraw_unbonded
\* in era c releases exactly the amounts unbonded in eras e with
\* e + UnbondingPeriod <= c and nothing younger; withdraw_unbonded with no
\* chunk whose unlock_era <= c fails with NothingToWithdraw and changes
\* nothing.
C6_UnbondingDelay ==
    \A a \in Accounts :
        LET r == withdraw_unbonded(Storage, a)
            log == unbond_log[a]
            chunks == unbonding_info[a]
        IN /\ SumChunks(chunks) = LogSum(log)
           /\ reserved[a] >= LogSum(log)
           /\ r.err = "Ok" =>
                 /\ r.out = MaturedLogSum(log, era.current)
                 /\ r.s.reserved[a] = reserved[a] - r.out
                 /\ r.s.free[a] = free[a] + r.out
                 /\ SumChunks(r.s.unbonding_info[a]) = LogSum(log) - r.out
           /\ (\A i \in 1..Len(chunks) : chunks[i].unlock_era > era.current) =>
                 r.err = "NothingToWithdraw" /\ r.s = Storage

\* an account holds an amount it unbonded UnbondingPeriod eras ago, which
\* withdraw_unbonded releases
C6_Witness ==
    \E a \in Accounts :
        LET r == withdraw_unbonded(Storage, a)
        IN /\ r.err = "Ok"
           /\ r.out > 0
           /\ \E e \in DOMAIN unbond_log[a] : e + UnbondingPeriod = era.current

\* C7: for a provider unregistered in era u, provider_withdraw_unregistered
\* fails with NothingToWithdraw and changes nothing while
\* current_era < u + UnbondingPeriod; from then on it succeeds if it has not
\* succeeded before, unreserving for the owner the bond recorded for era u;
\* once it has succeeded it fails with NothingToWithdraw.
C7_ProviderWithdrawOnce ==
    \A p \in DOMAIN provider_info :
        LET info == provider_info[p]
            u == info.status.era
            r == provider_withdraw_unregistered(Storage, p)
            bond == GetOr(provider_era_info, <<p, u>>, ProviderEraMetadataDefault).bond
        IN ~info.status.active =>
             /\ era.current < u + UnbondingPeriod =>
                   r.err = "NothingToWithdraw" /\ r.s = Storage
             /\ p \in withdrawn => r.err = "NothingToWithdraw" /\ r.s = Storage
             /\ era.current >= u + UnbondingPeriod /\ p \notin withdrawn =>
                   /\ r.err = "Ok"
                   /\ r.out = bond
                   /\ bond >= MinProviderStake
                   /\ r.s.reserved[info.owner] = reserved[info.owner] - bond
                   /\ r.s.free[info.owner] = free[info.owner] + bond

\* a provider's bond has been withdrawn and a further call is refused
C7_Witness ==
    \E p \in withdrawn :
        provider_withdraw_unregistered(Storage, p).err = "NothingToWithdraw"

\* C8: for a provider with status Inactive(u), claim_provider for an era >= u
\* and claim_delegator whose oldest unclaimed era is >= u fail with
\* NotOperatedProvider and change nothing; for eras before u the status is
\* no reason to refuse.
C8_InactiveFreezesClaims ==
    \A p \in DOMAIN provider_info :
        LET u == provider_info[p].status.era
        IN ~provider_info[p].status.active =>
             /\ \A e \in EraInputs :
                   LET r == claim_provider(Storage, p, e)
                   IN IF e >= u
                      THEN r.err = "NotOperatedProvider" /\ r.s = Storage
                      ELSE r.err # "NotOperatedProvider"
             /\ \A d \in Accounts :
                   LET stakes == delegation_info[<<d, p>>]
                       r == claim_delegator(Storage, d, p)
                   IN Len(stakes) > 0 =>
                        IF stakes[1].era >= u
                        THEN r.err = "NotOperatedProvider" /\ r.s = Storage
                        ELSE r.err # "NotOperatedProvider"

\* an unregistered provider with a delegator whose oldest unclaimed era is at
\* or after the unregistration, and an earlier era the provider can claim
C8_Witness ==
    \E p \in DOMAIN provider_info, d \in Accounts :
        /\ ~provider_info[p].status.active
        /\ Len(delegation_info[<<d, p>>]) > 0
        /\ delegation_info[<<d, p>>][1].era >= provider_info[p].status.era
        /\ claim_delegator(Storage, d, p).err = "NotOperatedProvider"
        /\ \E e \in EraInputs : claim_provider(Storage, p, e).err = "Ok"

\* C9 as claimed: for a registered provider, claim_provider for an era >= the
\* current era, and claim_delegator whose oldest unclaimed era is the current
\* era, fail with EraOutOfBounds.
C9_Original ==
    \A p \in DOMAIN provider_info :
        /\ \A e \in EraInputs :
              e >= era.current => claim_provider(Storage, p, e).err = "EraOutOfBounds"
        /\ \A d \in Accounts :
              LET stakes == delegation_info[<<d, p>>]
              IN Len(stakes) > 0 /\ stakes[1].era = era.current =>
                   claim_delegator(Storage, d, p).err = "EraOutOfBounds"

\* C9 amended: claim_provider for an era >= the current era, and
\* claim_delegator whose oldest unclaimed era is the current era, fail and
\* change nothing: with EraOutOfBounds when the provider is Active, with
\* NotOperatedProvider when it is Inactive or not registered.
C9_UnfinishedEraNotClaimable ==
    \A p \in Providers :
        LET expected == IF p \in DOMAIN provider_info /\ provider_info[p].status.active
                        THEN "EraOutOfBounds" ELSE "NotOperatedProvider"
        IN /\ \A e \in EraInputs :
                 LET r == claim_provider(Storage, p, e)
                 IN e >= era.current => r.err = expected /\ r.s = Storage
           /\ \A d \in Accounts :
                 LET stakes == delegation_info[<<d, p>>]
                     r == claim_delegator(Storage, d, p)
                 IN Len(stakes) > 0 /\ stakes[1].era = era.current =>
                      r.err = expected /\ r.s = Storage

\* an Active provider with rewards in the running era and a delegator whose
\* oldest unclaimed era is the running era, after an earlier claim
C9_Witness ==
    \E p \in DOMAIN provider_info, d \in Accounts :
        /\ provider_info[p].status.active
        /\ reward_accumulator > 0
        /\ last_paid[<<d, p>>] > 0
        /\ Len(delegation_info[<<d, p>>]) > 0
        /\ delegation_info[<<d, p>>][1].era = era.current
        /\ claim_delegator(Storage, d, p).err = "EraOutOfBounds"
        /\ claim_provider(Storage, p, era.current).err = "EraOutOfBounds"

\* C10: the era index and first_block change only in the step that starts a
\* block (on_initialize): the index grows by exactly 1 and first_block
\* becomes the number of that block; no call changes either.
C10_EraAdvancesOnlyInOnInitialize ==
    [][era'.current # era.current \/ era'.first_block # era.first_block =>
          /\ block' = block + 1
          /\ era'.current = era.current + 1
          /\ era'.first_block = block']_vars

\* three rollovers have happened
C10_Witness == era.current >= 4 /\ era.first_block = block

RECURSIVE RunBlocks(_, _, _)
\* on_initialize called for the k consecutive blocks after block `from`
RunBlocks(s, from, k) ==
    IF k = 0 THEN s ELSE on_initialize(RunBlocks(s, from, k - 1), from + k)

\* C11: on_initialize(now) starts a new era (index + 1, first_block = now)
\* exactly when now - first_block >= length and otherwise returns the
\* storage unchanged; so from the first block of an era of length L > 0,
\* on_initialize for each following block changes nothing for L - 1 blocks
\* and starts the next era at the L-th.
C11_EraLength ==
    /\ \A now \in Max(block, era.first_block)..(MaxBlockEra + 1) :
          LET s2 == on_initialize(Storage, now)
          IN IF now - era.first_block >= era.length
             THEN /\ s2.era.current = era.current + 1
                  /\ s2.era.first_block = now
             ELSE s2 = Storage
    /\ block = era.first_block /\ era.length > 0 =>
          /\ \A k \in 0..(era.length - 1) : RunBlocks(Storage, block, k) = Storage
          /\ LET s2 == RunBlocks(Storage, block, era.length)
             IN /\ s2.era.current = era.current + 1
                /\ s2.era.first_block = block + era.length
                /\ s2.era.length = era.length

\* an era of more than one block has just begun after a rollover
C11_Witness ==
    /\ era.current >= 2
    /\ block = era.first_block
    /\ era.length >= 2
    /\ RunBlocks(Storage, block, 1) = Storage
    /\ RunBlocks(Storage, block, era.length).era.current = era.current + 1

\* C12: on fresh storage the current era is 0, and the first on_initialize,
\* whatever the block number, starts era 1.
C12_FirstEraForced ==
    block = 0 =>
        /\ era.current = 0
        /\ \A now \in 1..(MaxBlock + 1) : on_initialize(Storage, now).era.current = 1

\* C13: a step that moves the era from e to e + 1 stores the accumulator's
\* value as EraState[e].rewards, leaves EraState[e].staked as it was, resets
\* the accumulator to 0, creates EraState[e + 1] with rewards 0 and the
\* staked amount of era e, and changes no balance.
C13_RolloverSnapshot ==
    [][era'.current # era.current =>
          LET e == era.current
              before == GetOr(era_state, e, EraMetadataDefault)
          IN /\ era'.current = e + 1
             /\ era_state'[e] = [rewards |-> reward_accumulator, staked |-> before.staked]
             /\ reward_accumulator' = 0
             /\ era_state'[e + 1] = [rewards |-> 0, staked |-> before.staked]
             /\ \A k \in DOMAIN era_state : k # e => era_state'[k] = era_state[k]
             /\ free' = free /\ reserved' = reserved /\ issuance' = issuance]_vars

\* an era with stake and collected rewards has just been closed
C13_Witness ==
    /\ era.current >= 3
    /\ block = era.first_block
    /\ era_state[era.current - 1].rewards > 0
    /\ era_state[era.current - 1].staked > 0
    /\ era_state[era.current] = [rewards |-> 0, staked |-> era_state[era.current - 1].staked]
    /\ reward_accumulator = 0
    /\ free[Escrow] > 0

\* amounts of a further call: the least, and those around the minimum stake
StepAmounts == {1, MinDelegatorStake - 1, MinDelegatorStake, MinDelegatorStake + 1}

\* the sum of the latest staked values of the delegators of p
DelegatedTo(s, p) ==
    SumOver([d \in Accounts |-> latest_staked_value(s.delegation_info[<<d, p>>])], Accounts)

TotalIsBondPlusStakes(s) ==
    \A p \in DOMAIN s.provider_info :
        s.provider_info[p].status.active =>
            /\ <<p, s.era.current>> \in DOMAIN s.provider_era_info
            /\ LET info == s.provider_era_info[<<p, s.era.current>>]
               IN info.total = info.bond + DelegatedTo(s, p)

\* C14: in every reachable state, and after any further bond or stake call
\* with any amount, the record of every Active provider for the current era
\* has total = bond + the sum of its delegators' latest staked values.
C14_TotalIsBondPlusStakes ==
    /\ TotalIsBondPlusStakes(Storage)
    /\ block >= 1 =>
          /\ TotalIsBondPlusStakes(on_initialize(Storage, block + 1))
          /\ \A a \in Accounts, p \in Providers, amount \in StepAmounts :
                /\ TotalIsBondPlusStakes(delegate(Storage, a, p, amount).s)
                /\ TotalIsBondPlusStakes(delegator_unstake(Storage, a, p, amount).s)
                /\ TotalIsBondPlusStakes(provider_bond_more(Storage, a, p, amount).s)
                /\ TotalIsBondPlusStakes(provider_bond_less(Storage, a, p, amount).s)
                /\ TotalIsBondPlusStakes(register_provider(Storage, a, p, amount).s)

\* an Active provider with a delegator who staked in two eras, while a
\* partial unstake that takes the whole stake is possible
C14_Witness ==
    \E p \in DOMAIN provider_info, d \in Accounts :
        /\ provider_info[p].status.active
        /\ Len(delegation_info[<<d, p>>]) >= 2
        /\ latest_staked_value(delegation_info[<<d, p>>]) = 2 * MinDelegatorStake
        /\ delegator_unstake(Storage, d, p, MinDelegatorStake + 1).out = 2 * MinDelegatorStake

\* what claim_delegator would pay d for era e of provider p
DelegatorPayout(s, d, p, e) ==
    LET r == claim_delegator(s, d, p)
    IN IF r.err = "Ok" /\ r.era = e THEN r.out ELSE 0

\* the providers whose era-e reward is or was payable
PayableProviders(s, e) ==
    {p \in DOMAIN s.provider_info :
        /\ <<p, e>> \in DOMAIN s.provider_era_info
        /\ s.provider_era_info[<<p, e>>].total > 0
        /\ s.provider_info[p].status.active \/ e < s.provider_info[p].status.era}

\* C15: for every finished era e the provider parts that
\* split_provider_delegators_rewards computes from the era-e records sum to
\* at most EraState[e].rewards, and for every provider the payouts of
\* claim_delegator to its delegators for era e sum to at most the
\* delegators' part of that provider for era e.
C15_SplitConservation ==
    \A e \in DOMAIN era_state :
        e < era.current =>
            /\ SumOver([p \in PayableProviders(Storage, e) |->
                          split_provider_delegators_rewards(
                              provider_era_info[<<p, e>>], era_state[e])[1]],
                       PayableProviders(Storage, e)) <= era_state[e].rewards
            /\ \A p \in PayableProviders(Storage, e) :
                  SumOver([d \in StakeAccounts |-> DelegatorPayout(Storage, d, p, e)],
                          StakeAccounts)
                      <= split_provider_delegators_rewards(
                             provider_era_info[<<p, e>>], era_state[e])[2]

StrictlyIncreasingEras(s) == \A i \in 1..(Len(s) - 1) : s[i].era < s[i + 1].era

\* C16: the eras of every stored Delegation are strictly increasing, and
\* they still are after a further stake or unstake in the current or a later
\* era and after a further claim.
C16_LedgerErasIncrease ==
    \A k \in DOMAIN delegation_info :
        LET l == delegation_info[k]
        IN /\ StrictlyIncreasingEras(l)
           /\ StrictlyIncreasingEras(DelegationClaim(l).stakes)
           /\ StrictlyIncreasingEras(DelegationClaim(DelegationClaim(l).stakes).stakes)
           /\ \A e \in era.current..(era.current + 1), amount \in StepAmounts :
                 /\ StrictlyIncreasingEras(DelegationStake(l, e, amount).stakes)
                 /\ StrictlyIncreasingEras(DelegationUnstake(l, e, amount).stakes)

\* after a claim, a ledger whose second entry is for the era right after
\* its first
C16_Witness ==
    \E k \in DOMAIN delegation_info :
        /\ last_paid[k] > 0
        /\ Len(delegation_info[k]) >= 2
        /\ delegation_info[k][2].era = delegation_info[k][1].era + 1

\* C17: every stored Delegation has fewer than MaxEraStakeValues entries; a
\* delegate, or a delegator_unstake of a delegator with stake, on an Active
\* provider that would bring the ledger to MaxEraStakeValues entries fails
\* with TooManyEraStakeValues and changes nothing.
C17_LedgerLengthBounded ==
    \A k \in DOMAIN delegation_info :
        LET l == delegation_info[k]
            d == k[1]
            p == k[2]
        IN /\ Len(l) < MaxEraStakeValues
           /\ Len(DelegationClaim(l).stakes) <= Len(l)
           /\ \A amount \in StepAmounts :
                 LET r == delegate(Storage, d, p, amount)
                     u == delegator_unstake(Storage, d, p, amount)
                 IN /\ r.err = "Ok" => Len(r.s.delegation_info[k]) < MaxEraStakeValues
                    /\ u.err = "Ok" => Len(u.s.delegation_info[k]) < MaxEraStakeValues
                    /\ is_active_provider(Storage, p)
                         /\ Len(DelegationStake(l, era.current, amount).stakes)
                                >= MaxEraStakeValues
                         => r.err = "TooManyEraStakeValues" /\ r.s = Storage
                    /\ is_active_provider(Storage, p)
                         /\ latest_staked_value(l) > 0
                         /\ Len(DelegationUnstake(l, era.current, amount).stakes)
                                >= MaxEraStakeValues
                         => u.err = "TooManyEraStakeValues" /\ u.s = Storage

\* a ledger one entry short of the limit, in an era it has no entry for
C17_Witness ==
    \E k \in DOMAIN delegation_info :
        /\ Len(delegation_info[k]) = MaxEraStakeValues - 1
        /\ delegate(Storage, k[1], k[2], MinDelegatorStake).err = "TooManyEraStakeValues"

\* the calls of the example: stake(5, 1000), stake(7, 300), then claims
ExampleStakes == <<StakeOp(5, 1000), StakeOp(7, 300)>>
ExampleClaims(n) == ExampleStakes \o [i \in 1..n |-> ClaimOp]

\* C18 as claimed: from an empty Delegation, stake(5, 1000) and stake(7, 300)
\* give [(5,1000),(7,1300)]; the first claim returns (5,1000) and leaves
\* [(6,1000),(7,1300)], the second returns (6,1000), the third returns
\* (7,1300) and leaves the ledger empty.
C18_Original ==
    /\ unit.ops = ExampleStakes =>
          unit.stakes = <<EraStake(1000, 5), EraStake(1300, 7)>>
    /\ unit.ops = ExampleClaims(1) =>
          /\ unit.returned = << <<5, 1000>> >>
          /\ unit.stakes = <<EraStake(1000, 6), EraStake(1300, 7)>>
    /\ unit.ops = ExampleClaims(2) =>
          unit.returned = << <<5, 1000>>, <<6, 1000>> >>
    /\ unit.ops = ExampleClaims(3) =>
          /\ unit.returned = << <<5, 1000>>, <<6, 1000>>, <<7, 1300>> >>
          /\ unit.stakes = <<>>

\* C18 amended: as above, but the second claim leaves [(7,1300)] and the
\* third claim, which returns (7,1300), leaves [(8,1300)]: the ledger is not
\* empty.
C18_Example ==
    /\ unit.ops = ExampleStakes =>
          unit.stakes = <<EraStake(1000, 5), EraStake(1300, 7)>>
    /\ unit.ops = ExampleClaims(1) =>
          /\ unit.returned = << <<5, 1000>> >>
          /\ unit.stakes = <<EraStake(1000, 6), EraStake(1300, 7)>>
    /\ unit.ops = ExampleClaims(2) =>
          /\ unit.returned = << <<5, 1000>>, <<6, 1000>> >>
          /\ unit.stakes = <<EraStake(1300, 7)>>
    /\ unit.ops = ExampleClaims(3) =>
          /\ unit.returned = << <<5, 1000>>, <<6, 1000>>, <<7, 1300>> >>
          /\ unit.stakes = <<EraStake(1300, 8)>>

\* the three claims of the example have been made
C18_Witness == unit.ops = ExampleClaims(3)

\* the sum of the amounts of the calls of kind op made in eras up to e
RECURSIVE SumOps(_, _, _)
SumOps(ops, op, e) ==
    IF ops = <<>> THEN 0
    ELSE (IF ops[1].op = op /\ ops[1].era <= e THEN ops[1].amount ELSE 0)
         + SumOps(Tail(ops), op, e)

RECURSIVE SumReturned(_)
SumReturned(returned) ==
    IF returned = <<>> THEN 0 ELSE returned[1][2] + SumReturned(Tail(returned))

LastLedgerEra == 7
NetStaked(ops) ==
    SumOps(ops, "stake", LastLedgerEra) - SumOps(ops, "unstake", LastLedgerEra)
StakedAsOf(ops, e) == SumOps(ops, "stake", e) - SumOps(ops, "unstake", e)

StrictlyAscendingChunks(c) ==
    \A i \in 1..(Len(c) - 1) : c[i].unlock_era < c[i + 1].unlock_era

HasChunkFor(c, unlock_era) == \E i \in DOMAIN c : c[i].unlock_era = unlock_era

\* c2 is c after amount was added for unlock_era
ChunkAdded(c, c2, unlock_era, amount) ==
    IF HasChunkFor(c, unlock_era)
    THEN /\ Len(c2) = Len(c)
         /\ \A i \in DOMAIN c :
               c2[i] = IF c[i].unlock_era = unlock_era
                       THEN [c[i] EXCEPT !.amount = @ + amount]
                       ELSE c[i]
    ELSE /\ Len(c2) = Len(c) + 1
         /\ HasChunkFor(c2, unlock_era)
         /\ SumChunks(c2) = SumChunks(c) + amount

\* C20: the chunks of every stored UnbondingInfo have strictly ascending
\* unlock eras, and a provider_bond_less or delegator_unstake whose unlock era
\* already has a chunk adds its amount to that chunk instead of adding a chunk.
C20_ChunksStrictlyAscending ==
    \A a \in DOMAIN unbonding_info :
        /\ StrictlyAscendingChunks(unbonding_info[a])
        /\ \A p \in Providers, amount \in StepAmounts :
              LET u == delegator_unstake(Storage, a, p, amount)
                  b == provider_bond_less(Storage, a, p, amount)
                  unlock_era == era.current + UnbondingPeriod
              IN /\ u.err = "Ok" =>
                       /\ StrictlyAscendingChunks(u.s.unbonding_info[a])
                       /\ ChunkAdded(unbonding_info[a], u.s.unbonding_info[a],
                                     unlock_era, u.out)
                 /\ b.err = "Ok" =>
                       /\ StrictlyAscendingChunks(b.s.unbonding_info[a])
                       /\ ChunkAdded(unbonding_info[a], b.s.unbonding_info[a],
                                     unlock_era, b.out)

\* an account with a chunk for the current unlock era unstakes again: the
\* amount goes to that chunk
C20_Witness ==
    \E a \in DOMAIN unbonding_info, p \in Providers :
        LET c == unbonding_info[a]
            u == delegator_unstake(Storage, a, p, MinDelegatorStake)
        IN /\ HasChunkFor(c, era.current + UnbondingPeriod)
           /\ u.err = "Ok"
           /\ u.out > 0
           /\ Len(u.s.unbonding_info[a]) = Len(c)
           /\ SumChunks(u.s.unbonding_info[a]) = SumChunks(c) + u.out

\* sub is c restricted to some of its positions, in the order of c
RECURSIVE InOriginalOrder(_, _)
InOriginalOrder(sub, c) ==
    IF sub = <<>> THEN TRUE
    ELSE IF c = <<>> THEN FALSE
    ELSE IF Head(sub) = Head(c) THEN InOriginalOrder(Tail(sub), Tail(c))
    ELSE InOriginalOrder(sub, Tail(c))

PartitionCorrect(c, e) ==
    LET parts == UnbondingPartition(c, e)
    IN /\ \A i \in DOMAIN parts.valid : parts.valid[i].unlock_era <= e
       /\ \A i \in DOMAIN parts.future : parts.future[i].unlock_era > e
       /\ Len(parts.valid) = Cardinality({i \in DOMAIN c : c[i].unlock_era <= e})
       /\ Len(parts.valid) + Len(parts.future) = Len(c)
       /\ InOriginalOrder(parts.valid, c)
       /\ InOriginalOrder(parts.future, c)
       /\ SumChunks(parts.valid) + SumChunks(parts.future) = SumChunks(c)

\* the eras a ledger is partitioned at, and the chunks added to a stored
\* ledger to get the ledgers one add further
PartitionEras == 0..(MaxBlockStake + UnbondingPeriod + 1)
ExtraChunks ==
    {UnlockingChunk(1, e) : e \in {1, era.current + 1, era.current + UnbondingPeriod}}

\* C21: partition(e) returns the chunks with unlock_era <= e and the rest,
\* each in the original order, with the same total amount; withdraw_unbonded
\* unreserves the total of the first part, stores the second part, and the
\* entry is gone when the second part is empty.
C21_PartitionAndWithdraw ==
    \A a \in DOMAIN unbonding_info :
        LET c == unbonding_info[a]
            parts == UnbondingPartition(c, era.current)
            r == withdraw_unbonded(Storage, a)
        IN /\ \A e \in PartitionEras :
                 /\ PartitionCorrect(c, e)
                 /\ \A x \in ExtraChunks : PartitionCorrect(UnbondingAdd(c, x), e)
           /\ r.err = "Ok" <=> SumChunks(parts.valid) > 0
           /\ r.err = "Ok" =>
                 /\ r.out = SumChunks(parts.valid)
                 /\ r.s.reserved[a] = reserved[a] - SumChunks(parts.valid)
                 /\ r.s.free[a] = free[a] + SumChunks(parts.valid)
                 /\ r.s.unbonding_info[a] = parts.future
                 /\ r.s = [Storage EXCEPT !.reserved[a] = r.s.reserved[a],
                                          !.free[a] = r.s.free[a],
                                          !.unbonding_info[a] = parts.future]

\* an account with a chunk that has unlocked and one that has not
C21_Witness ==
    \E a \in DOMAIN unbonding_info :
        LET parts == UnbondingPartition(unbonding_info[a], era.current)
        IN /\ parts.valid # <<>>
           /\ parts.future # <<>>
           /\ withdraw_unbonded(Storage, a).err = "Ok"

\* C22: delegator_count never exceeds MaxDelegatorsPerProvider, and a delegate
\* call by an account without stake on a provider that already has
\* MaxDelegatorsPerProvider delegators fails with MaxNumberOfStakersExceeded.
C22_DelegatorCountBounded ==
    /\ \A k \in DOMAIN provider_era_info :
          provider_era_info[k].delegator_count <= MaxDelegatorsPerProvider
    /\ \A d \in CrowdAccounts, p \in CrowdProviders :
          LET info == GetOr(provider_era_info, <<p, era.current>>,
                            ProviderEraMetadataDefault)
          IN (/\ is_active_provider(Storage, p)
              /\ latest_staked_value(delegation_info[<<d, p>>]) = 0
              /\ info.delegator_count >= MaxDelegatorsPerProvider)
             => delegate(Storage, d, p, MinDelegatorStake).err
                    = "MaxNumberOfStakersExceeded"

DelegatorCount(s, p) ==
    GetOr(s.provider_era_info, <<p, current_era(s)>>,
          ProviderEraMetadataDefault).delegator_count

StakeAtLeastMinimum(s) ==
    \A k \in DOMAIN s.delegation_info :
        \/ latest_staked_value(s.delegation_info[k]) = 0
        \/ latest_staked_value(s.delegation_info[k]) >= MinDelegatorStake

\* C23: every delegator's latest staked value is 0 or at least
\* MinDelegatorStake; delegate fails with InsufficientBond when the resulting
\* stake would be below the minimum, and delegator_unstake takes the whole
\* position, decrementing delegator_count, when the remainder would be below
\* the minimum.
C23_StakeAtLeastMinimum ==
    /\ StakeAtLeastMinimum(Storage)
    /\ \A d \in Accounts, p \in Providers, amount \in StepAmounts :
          LET v == latest_staked_value(delegation_info[<<d, p>>])
              r == delegate(Storage, d, p, amount)
              u == delegator_unstake(Storage, d, p, amount)
          IN /\ (is_active_provider(Storage, p) /\ v + amount < MinDelegatorStake)
                    => r.err = "InsufficientBond"
             /\ r.err = "Ok" => StakeAtLeastMinimum(r.s)
             /\ u.err = "Ok" =>
                   /\ StakeAtLeastMinimum(u.s)
                   /\ IF v - amount < MinDelegatorStake
                      THEN /\ u.out = v
                           /\ latest_staked_value(u.s.delegation_info[<<d, p>>]) = 0
                           /\ DelegatorCount(u.s, p) = DelegatorCount(Storage, p) - 1
                      ELSE /\ u.out = amount
                           /\ latest_staked_value(u.s.delegation_info[<<d, p>>]) = v - amount
                           /\ DelegatorCount(u.s, p) = DelegatorCount(Storage, p)

\* an unstake that would leave a positive remainder below the minimum takes
\* the whole position
C23_Witness ==
    \E d \in Accounts, p \in Providers :
        LET v == latest_staked_value(delegation_info[<<d, p>>])
            u == delegator_unstake(Storage, d, p, MinDelegatorStake + 1)
        IN /\ v > MinDelegatorStake + 1
           /\ u.err = "Ok"
           /\ u.out = v
           /\ \E a \in Accounts :
                 delegate(Storage, a, p, MinDelegatorStake - 1).err = "InsufficientBond"

CurrentBond(s, p) ==
    GetOr(s.provider_era_info, <<p, current_era(s)>>, ProviderEraMetadataDefault).bond

BondAtLeastMinimum(s) ==
    \A p \in DOMAIN s.provider_info :
        is_active_provider(s, p) => CurrentBond(s, p) >= MinProviderStake

\* C24: the bond of every Active provider in its current-era record is at
\* least MinProviderStake; register_provider of a new id with a bond below the
\* minimum, and provider_bond_less by the owner that would leave less than the
\* minimum, fail with InsufficientBond.
C24_BondAtLeastMinimum ==
    /\ BondAtLeastMinimum(Storage)
    /\ \A a \in Accounts, p \in Providers, amount \in StepAmounts :
          LET r == register_provider(Storage, a, p, amount)
              b == provider_bond_less(Storage, a, p, amount)
          IN /\ (p \notin DOMAIN provider_info /\ amount < MinProviderStake)
                    => r.err = "InsufficientBond"
             /\ r.err = "Ok" => BondAtLeastMinimum(r.s)
             /\ (/\ is_active_provider(Storage, p)
                 /\ provider_info[p].owner = a
                 /\ CurrentBond(Storage, p) - amount < MinProviderStake)
                    => b.err = "InsufficientBond"
             /\ b.err = "Ok" =>
                   /\ BondAtLeastMinimum(b.s)
                   /\ CurrentBond(b.s, p) = CurrentBond(Storage, p) - amount

\* a provider whose bond is above the minimum: lowering it to the minimum is
\* accepted, lowering it by one more is refused
C24_Witness ==
    \E p \in DOMAIN provider_info :
        LET a == provider_info[p].owner
            bond == CurrentBond(Storage, p)
        IN /\ is_active_provider(Storage, p)
           /\ era.current > 1
           /\ bond > MinProviderStake
           /\ provider_bond_less(Storage, a, p, bond - MinProviderStake).err = "Ok"
           /\ provider_bond_less(Storage, a, p, bond - MinProviderStake + 1).err
                  = "InsufficientBond"

IsInactive(s, p) == p \in DOMAIN s.provider_info /\ ~s.provider_info[p].status.active

Refused(r) == r.err = "NotOperatedProvider" /\ r.s = Storage

\* C25: on an Inactive provider, provider_bond_more, provider_bond_less,
\* delegate and delegator_unstake fail with NotOperatedProvider and change no
\* state, in the era of the unregistration and in every later era.
C25_InactiveRefusesStaking ==
    \A p \in Providers :
        IsInactive(Storage, p) =>
            \A a \in Accounts, amount \in StepAmounts :
                /\ Refused(provider_bond_more(Storage, a, p, amount))
                /\ Refused(provider_bond_less(Storage, a, p, amount))
                /\ Refused(delegate(Storage, a, p, amount))
                /\ Refused(delegator_unstake(Storage, a, p, amount))

\* an Inactive provider with a delegator, in an era after the unregistration
C25_Witness ==
    \E p \in Providers, d \in Accounts :
        /\ IsInactive(Storage, p)
        /\ era.current > provider_info[p].status.era
        /\ latest_staked_value(delegation_info[<<d, p>>]) > 0
        /\ free[d] >= MinDelegatorStake

\* C26: a provider's status changes only from Active to Inactive(e), e the
\* current era of the unregister_provider call, and a second unregister_provider
\* fails with NotOperatedProvider; bond_withdrawn changes only from false to
\* true; the owner never changes.
C26_ProviderLifecycle ==
    [][\A p \in DOMAIN provider_info :
          /\ p \in DOMAIN provider_info'
          /\ provider_info'[p].owner = provider_info[p].owner
          /\ provider_info'[p].status # provider_info[p].status =>
                /\ provider_info[p].status = Active
                /\ provider_info'[p].status = Inactive(era.current)
          /\ provider_info'[p].bond_withdrawn # provider_info[p].bond_withdrawn =>
                /\ ~provider_info[p].bond_withdrawn
                /\ provider_info'[p].bond_withdrawn
          /\ IsInactive(Storage, p) =>
                /\ unregister_provider(Storage, p).err = "NotOperatedProvider"
                /\ unregister_provider(Storage, p).s = Storage]_vars

\* an unregistered provider whose bond has been withdrawn
C26_Witness ==
    \E p \in DOMAIN provider_info :
        /\ IsInactive(Storage, p)
        /\ provider_info[p].status.era >= 1
        /\ provider_info[p].bond_withdrawn

\* C27: register_provider for an id already in ProviderInfo, Active or
\* Inactive, fails with ProviderExists and changes no state.
C27_ProviderIdNotReused ==
    \A p \in DOMAIN provider_info, a \in Accounts, bond \in StepAmounts :
        LET r == register_provider(Storage, a, p, bond)
        IN r.err = "ProviderExists" /\ r.s = Storage

\* an unregistered provider whose bond was withdrawn, and an account with the
\* funds to register it again
C27_Witness ==
    \E p \in DOMAIN provider_info, a \in Accounts :
        /\ IsInactive(Storage, p)
        /\ provider_info[p].bond_withdrawn
        /\ free[a] >= MinProviderStake
        /\ register_provider(Storage, a, p, MinProviderStake).err = "ProviderExists"

HasUnclaimedProviderReward(s, p) ==
    /\ IsInactive(s, p)
    /\ \E e \in EraInputs :
          /\ e < s.provider_info[p].status.era
          /\ claim_provider(s, p, e).err = "Ok"
          /\ claim_provider(s, p, e).out > 0

\* C29 as claimed: while the provider has an unclaimed provider reward for an
\* era before its deactivation era, provider_withdraw_unregistered does not
\* release the bond, and is rejected with UnclaimedRewardsRemaining once the
\* unbonding period is over.
C29_Original ==
    \A p \in Providers :
        HasUnclaimedProviderReward(Storage, p) =>
            LET r == provider_withdraw_unregistered(Storage, p)
            IN /\ r.err # "Ok"
               /\ (/\ ~provider_info[p].bond_withdrawn
                   /\ UnbondingElapsed(era.current, provider_info[p].status.era))
                      => r.err = "UnclaimedRewardsRemaining"

\* C29 amended: provider_withdraw_unregistered never returns
\* UnclaimedRewardsRemaining; it releases the bond of a provider that has been
\* Inactive for UnbondingPeriod eras whether or not provider rewards are
\* unclaimed, and every claim_provider gives the same result after the
\* withdrawal as before it.
C29_ProviderWithdrawIgnoresRewards ==
    \A p \in Providers :
        LET r == provider_withdraw_unregistered(Storage, p)
        IN /\ r.err # "UnclaimedRewardsRemaining"
           /\ (/\ IsInactive(Storage, p)
               /\ ~provider_info[p].bond_withdrawn
               /\ era.current >= provider_info[p].status.era + UnbondingPeriod)
                  => r.err = "Ok"
           /\ r.err = "Ok" =>
                 /\ r.s.reserved[provider_info[p].owner]
                        = reserved[provider_info[p].owner] - r.out
                 /\ \A e \in EraInputs :
                       LET before == claim_provider(Storage, p, e)
                           after == claim_provider(r.s, p, e)
                       IN after.err = before.err /\ after.out = before.out

\* the bond is released while a provider reward is unclaimed
C29_Witness ==
    \E p \in Providers :
        /\ HasUnclaimedProviderReward(Storage, p)
        /\ provider_withdraw_unregistered(Storage, p).err = "Ok"
        /\ provider_withdraw_unregistered(Storage, p).out >= MinProviderStake

\* C30: a delegation made in era e takes effect in era e + 1: the first era
\* the delegator can claim for the delegated amount is e + 1, and no delegator
\* reward is paid to it for era e.
C30_DelegationEffectiveNextEra ==
    \A d \in Accounts, p \in Providers, amount \in StepAmounts :
        LET r == delegate(Storage, d, p, amount)
            first == DelegationClaim(r.s.delegation_info[<<d, p>>])
        IN (r.err = "Ok" /\ delegation_info[<<d, p>>] = <<>>) =>
              /\ first.amount = amount
              /\ first.era = era.current + 1

\* no record of an Inactive provider is for an era after its deactivation
NoRecordAfterDeactivation(s) ==
    \A k \in DOMAIN s.provider_era_info :
        IsInactive(s, k[1]) => k[2] <= s.provider_info[k[1]].status.era

\* C31: a rollover from era e to e + 1 creates, for every Active provider with
\* a record for era e, the record for era e + 1 with the same bond, total and
\* delegator_count and provider_reward_claimed = false, and leaves every
\* existing record as it was; an Inactive provider has no record for an era
\* after its deactivation era.
C31_RolloverRotatesActiveProviders ==
    /\ [](NoRecordAfterDeactivation(Storage))
    /\ [][era'.current # era.current =>
            LET e == era.current
            IN /\ \A k \in DOMAIN provider_era_info :
                     /\ k \in DOMAIN provider_era_info'
                     /\ provider_era_info'[k] = provider_era_info[k]
               /\ \A p \in DOMAIN provider_info :
                     IF is_active_provider(Storage, p) /\ <<p, e>> \in DOMAIN provider_era_info
                     THEN /\ <<p, e + 1>> \in DOMAIN provider_era_info'
                          /\ provider_era_info'[<<p, e + 1>>] =
                                [bond |-> provider_era_info[<<p, e>>].bond,
                                 total |-> provider_era_info[<<p, e>>].total,
                                 delegator_count |-> provider_era_info[<<p, e>>].delegator_count,
                                 provider_reward_claimed |-> FALSE]
                     ELSE <<p, e + 1>> \notin DOMAIN provider_era_info'
               /\ DOMAIN provider_era_info' \subseteq
                     DOMAIN provider_era_info \cup {<<p, e + 1>> : p \in DOMAIN provider_info}
       ]_vars

\* an era has just begun: an Active provider with a delegator has its record
\* for it, a provider unregistered before has none
C31_Witness ==
    /\ block = era.first_block
    /\ era.current >= 2
    /\ \E p \in DOMAIN provider_info :
          /\ is_active_provider(Storage, p)
          /\ <<p, era.current>> \in DOMAIN provider_era_info
          /\ provider_era_info[<<p, era.current>>].delegator_count > 0
    /\ \E p \in DOMAIN provider_info :
          /\ IsInactive(Storage, p)
          /\ provider_info[p].status.era < era.current
          /\ <<p, provider_info[p].status.era>> \in DOMAIN provider_era_info

\* the explicit table: the first era from `from` on with a non-zero stake, 0
\* when there is none (after LastLedgerEra the stake no longer changes)
NextStakedEra(ops, from) ==
    LET staked == {e \in from..Max(from, LastLedgerEra) : StakedAsOf(ops, e) > 0}
    IN IF staked = {} THEN 0 ELSE CHOOSE e \in staked : \A x \in staked : e <= x

\* the n-th pair the table gives: the eras with a non-zero stake in increasing
\* order, each with its stake, and (0, 0) when none is left
RECURSIVE TableClaim(_, _)
TableClaim(ops, n) ==
    LET from == IF n = 1 THEN 1 ELSE TableClaim(ops, n - 1)[1] + 1
        e == IF from = 1 /\ n > 1 THEN 0 ELSE NextStakedEra(ops, from)
    IN IF e = 0 THEN <<0, 0>> ELSE <<e, StakedAsOf(ops, e)>>

\* C32: the claims on a ledger built by stake and unstake calls return the
\* pairs (e, s_e) of the per-era stake table in increasing era order, skipping
\* every era whose stake is zero; a claim removes the head when the next entry
\* is for the following era and otherwise moves the head to the following era.
C32_LedgerIsEraTable ==
    LET s == unit.stakes
        c == DelegationClaim(s)
        n == Len(unit.returned)
    IN /\ \A i \in DOMAIN unit.returned : unit.returned[i] = TableClaim(unit.ops, i)
       /\ unit.ops # <<>> => <<c.era, c.amount>> = TableClaim(unit.ops, n + 1)
       /\ (Len(s) >= 2 /\ s[2].era = s[1].era + 1) => Len(c.stakes) < Len(s)
       /\ (Len(s) >= 1 /\ s[1].amount > 0 /\ ~(Len(s) >= 2 /\ s[2].era = s[1].era + 1))
              => /\ Len(c.stakes) = Len(s)
                 /\ c.stakes[1] = EraStake(s[1].amount, s[1].era + 1)

HasChunk(c, unlock_era) == \E i \in 1..Len(c) : c[i].unlock_era = unlock_era

\* the errors of the checks that provider_bond_less and delegator_unstake
\* make before they touch the unbonding ledger
EarlierUnbondErrors ==
    {"UnstakingWithNoValue", "ProviderDNE", "NotOperatedProvider", "NotOwnedProvider",
     "InsufficientBond", "NotStakedProvider", "UnexpectedDelegationInfoEra",
     "TooManyEraStakeValues"}

\* what the chunk limit allows the call with result r, made by who, to do
ChunkLimitRespected(s, who, r) ==
    LET c == s.unbonding_info[who]
        present == HasChunk(c, s.era.current + UnbondingPeriod)
        full == Len(c) = MaxUnlockingChunks
    IN /\ r.err = "TooManyUnlockingChunks" => full /\ ~present /\ r.s = s
       /\ full /\ ~present /\ r.err \notin EarlierUnbondErrors =>
            r.err = "TooManyUnlockingChunks"
       /\ r.err = "Ok" =>
            Len(r.s.unbonding_info[who]) = IF present THEN Len(c) ELSE Len(c) + 1

\* C34: every stored unbonding ledger holds at most MaxUnlockingChunks
\* chunks; a provider_bond_less or delegator_unstake that passes its earlier
\* checks fails with TooManyUnlockingChunks, changing nothing, exactly when
\* the account holds MaxUnlockingChunks chunks and none for the era
\* current + UnbondingPeriod; when a chunk for that era is present the call
\* merges into it and the ledger keeps its length
C34_UnlockingChunksBounded ==
    /\ \A a \in Accounts : Len(unbonding_info[a]) <= MaxUnlockingChunks
    /\ \A who \in Accounts, p \in Providers, amount \in StepAmounts :
         /\ ChunkLimitRespected(Storage, who, provider_bond_less(Storage, who, p, amount))
         /\ ChunkLimitRespected(Storage, who, delegator_unstake(Storage, who, p, amount))

\* an owner and a delegator each hold MaxUnlockingChunks chunks; the owner
\* has none for the current unlock era and a further bond_less is refused,
\* the delegator has one and a further unstake merges into it
C34_Witness ==
    /\ \E who \in Accounts, p \in Providers, amount \in StepAmounts :
         /\ Len(unbonding_info[who]) = MaxUnlockingChunks
         /\ provider_bond_less(Storage, who, p, amount).err = "TooManyUnlockingChunks"
    /\ \E who \in Accounts, p \in Providers, amount \in StepAmounts :
         /\ Len(unbonding_info[who]) = MaxUnlockingChunks
         /\ HasChunk(unbonding_info[who], era.current + UnbondingPeriod)
         /\ delegator_unstake(Storage, who, p, amount).err = "Ok"


\* the providers whose status is Active
ActiveProviders(s) == {p \in DOMAIN s.provider_info : s.provider_info[p].status = Active}

\* EraState[current_era].staked, and ProviderEraInfo[p, current_era].total
StakedNow(s) == GetOr(s.era_state, s.era.current, EraMetadataDefault).staked
TotalNow(s, p) ==
    GetOr(s.provider_era_info, <<p, s.era.current>>, ProviderEraMetadataDefault).total

StakedMatchesTotals(s) ==
    StakedNow(s) = SumOver([p \in ActiveProviders(s) |-> TotalNow(s, p)], ActiveProviders(s))

\* C35: EraState[current_era].staked is the sum of the totals of the Active
\* providers at the current era; register_provider, provider_bond_more and
\* delegate add their amount, provider_bond_less and delegator_unstake
\* subtract the amount they unbond, unregister_provider subtracts the provider's whole total
\* and leaves the provider's era records as they are, and an era rollover
\* carries the value to the new era
C35_StakedIsSumOfTotals ==
    /\ StakedMatchesTotals(Storage)
    /\ \A a \in Accounts, p \in Providers, amount \in StepAmounts :
         /\ LET r == register_provider(Storage, a, p, amount)
            IN r.err = "Ok" => StakedNow(r.s) = StakedNow(Storage) + amount
         /\ LET r == provider_bond_more(Storage, a, p, amount)
            IN r.err = "Ok" => StakedNow(r.s) = StakedNow(Storage) + amount
         /\ LET r == delegate(Storage, a, p, amount)
            IN r.err = "Ok" => StakedNow(r.s) = StakedNow(Storage) + amount
         /\ LET r == provider_bond_less(Storage, a, p, amount)
            IN r.err = "Ok" => /\ r.out = amount
                               /\ StakedNow(r.s) + amount = StakedNow(Storage)
         /\ LET r == delegator_unstake(Storage, a, p, amount)
            IN r.err = "Ok" => StakedNow(r.s) + r.out = StakedNow(Storage)
    /\ \A p \in Providers :
         LET r == unregister_provider(Storage, p)
         IN r.err = "Ok" =>
              /\ StakedNow(r.s) + TotalNow(Storage, p) = StakedNow(Storage)
              /\ r.s.provider_era_info = provider_era_info
    /\ LET s == on_initialize(Storage, block + 1)
       IN s.era.current # era.current => StakedNow(s) = StakedNow(Storage)

\* after a rollover one provider is Active with a delegator's stake on top of
\* its bond, and another has been unregistered with its era record kept
C35_Witness ==
    /\ era.current > 1
    /\ \E p \in ActiveProviders(Storage) :
         /\ TotalNow(Storage, p) > CurrentBond(Storage, p)
         /\ StakedNow(Storage) = TotalNow(Storage, p)
    /\ \E p \in DOMAIN provider_info :
         /\ IsInactive(Storage, p)
         /\ \E e \in 1..era.current :
              /\ <<p, e>> \in DOMAIN provider_era_info
              /\ provider_era_info[<<p, e>>].total > 0


\* the bond of provider p still held: the one of the current era while p is
\* Active, the one of the era of its unregistration afterwards
HeldBond(s, p) ==
    LET e == IF s.provider_info[p].status.active THEN current_era(s)
             ELSE s.provider_info[p].status.era
    IN GetOr(s.provider_era_info, <<p, e>>, ProviderEraMetadataDefault).bond

\* the providers owned by account a whose bond has not been withdrawn
BondedProviders(s, a) ==
    {p \in DOMAIN s.provider_info :
        s.provider_info[p].owner = a /\ ~s.provider_info[p].bond_withdrawn}

\* what the pallet's records say is reserved on account a
RecordedReserve(s, a) ==
    LET provs == {k[2] : k \in {x \in DOMAIN s.delegation_info : x[1] = a}}
    IN SumOver([p \in BondedProviders(s, a) |-> HeldBond(s, p)], BondedProviders(s, a))
       + SumOver([p \in provs |-> latest_staked_value(s.delegation_info[<<a, p>>])], provs)
       + SumChunks(s.unbonding_info[a])

Delegators(s, p) ==
    {k[1] : k \in {x \in DOMAIN s.delegation_info :
                      x[2] = p /\ latest_staked_value(s.delegation_info[x]) # 0}}

\* C37: for every Active provider the delegator_count of its record at the
\* current era is the number of accounts with a non-zero latest staked value
\* on it; a delegate raises it by one exactly when the delegator's stake was
\* zero, a delegator_unstake lowers it by one exactly when the stake becomes
\* zero
C37_DelegatorCountIsNumberOfDelegators ==
    /\ \A p \in ActiveProviders(Storage) :
          DelegatorCount(Storage, p) = Cardinality(Delegators(Storage, p))
    /\ \A a \in DOMAIN unbonding_info, p \in ActiveProviders(Storage),
          amount \in StepAmounts :
          LET was == latest_staked_value(delegation_info[<<a, p>>])
              d == delegate(Storage, a, p, amount)
              u == delegator_unstake(Storage, a, p, amount)
          IN /\ d.err = "Ok" =>
                  DelegatorCount(d.s, p) =
                      DelegatorCount(Storage, p) + (IF was = 0 THEN 1 ELSE 0)
             /\ u.err = "Ok" =>
                  DelegatorCount(u.s, p) + (IF u.out = was THEN 1 ELSE 0) =
                      DelegatorCount(Storage, p)

\* a provider that has had two delegators, of whom one has unstaked everything
\* and the other has staked twice, counts one delegator
C37_Witness ==
    \E p \in ActiveProviders(Storage) :
        /\ DelegatorCount(Storage, p) = 1
        /\ \E a \in Delegators(Storage, p) : Len(delegation_info[<<a, p>>]) >= 2
        /\ \E b \in DOMAIN unbonding_info :
              /\ b \notin Delegators(Storage, p)
              /\ SumChunks(unbonding_info[b]) > 0


\* no entry of the ledger is for an era after e
NoEntryAfter(stakes, e) == \A i \in 1..Len(stakes) : stakes[i].era <= e

\* C38: no stored Delegation entry is for an era after the current one, a
\* successful claim_delegator leaves none either, so Delegation::stake and
\* Delegation::unstake at the current era never return their error and
\* delegate and delegator_unstake never fail with UnexpectedDelegationInfoEra
C38_NoEntryAfterCurrentEra ==
    \A k \in DOMAIN delegation_info :
        /\ NoEntryAfter(delegation_info[k], era.current)
        /\ LET r == claim_delegator(Storage, k[1], k[2])
           IN r.err = "Ok" => NoEntryAfter(r.s.delegation_info[k], era.current)
        /\ \A amount \in StepAmounts :
             /\ DelegationStake(delegation_info[k], era.current, amount).ok
             /\ DelegationUnstake(delegation_info[k], era.current, amount).ok
             /\ delegate(Storage, k[1], k[2], amount).err # "UnexpectedDelegationInfoEra"
             /\ delegator_unstake(Storage, k[1], k[2], amount).err
                    # "UnexpectedDelegationInfoEra"

\* a claim for the era before the current one has moved the only entry of a
\* ledger to the current era, and a further delegate is accepted
C38_Witness ==
    \E k \in DOMAIN delegation_info :
        /\ last_paid[k] >= 1
        /\ last_paid[k] + 1 = era.current
        /\ Len(delegation_info[k]) = 1
        /\ delegation_info[k][1].era = era.current
        /\ \E amount \in StepAmounts :
              delegate(Storage, k[1], k[2], amount).err = "Ok"


\* C39: the escrow account always holds what the finished eras still owe: no
\* claim_provider and no claim_delegator that passes its checks fails in the
\* payout because the escrow account holds too little
C39_EscrowSolvent ==
    /\ \A p \in DOMAIN provider_info, e \in DOMAIN era_state :
          claim_provider(Storage, p, e).err # "InsufficientBalance"
    /\ \A k \in DOMAIN delegation_info :
          claim_delegator(Storage, k[1], k[2]).err # "InsufficientBalance"


\* the block whose on_initialize ends the k-th era from the current one on,
\* when the era length is not changed again
EraEndBlock(k) ==
    (IF era.first_block + era.length > block + 1
     THEN era.first_block + era.length ELSE block + 1) + era.length * (k - 1)

\* era e is reached while blocks are produced up to MaxBlockLive
ReachedInTime(e) == e <= era.current \/ EraEndBlock(e - era.current) <= MaxBlockLive

\* C40: on_initialize running for every block, every era ends; every
\* unbonding chunk becomes withdrawable by withdraw_unbonded and the bond of
\* every unregistered provider becomes withdrawable by
\* provider_withdraw_unregistered (for the eras that the blocks up to
\* MaxBlockLive reach: the current era is at most the block number, so no
\* other era, chunk or unregistration can be waited for)
C40_ErasEndAndFundsUnlock ==
    /\ \A e \in 1..(MaxBlockLive - 1) :
          (era.current = e /\ ReachedInTime(e + 1)) ~> (era.current > e)
    /\ \A a \in UnbondDelegators, u \in (1 + UnbondingPeriod)..MaxBlockLive :
          (HasChunk(unbonding_info[a], u) /\ ReachedInTime(u))
             ~> (withdraw_unbonded(Storage, a).err = "Ok")
    /\ \A p \in UnbondProviders, e \in 1..(MaxBlockLive - UnbondingPeriod) :
          (/\ IsInactive(Storage, p)
           /\ provider_info[p].status.era = e
           /\ ~provider_info[p].bond_withdrawn
           /\ ReachedInTime(e + UnbondingPeriod))
             ~> (provider_withdraw_unregistered(Storage, p).err = "Ok")

\* the unbonding period of a chunk and of an unregistered provider has passed
\* and both withdrawals are accepted
C40_Witness ==
    /\ era.current > UnbondingPeriod
    /\ \E a \in Accounts :
          /\ Len(unbonding_info[a]) > 0
          /\ withdraw_unbonded(Storage, a).err = "Ok"
    /\ \E p \in DOMAIN provider_info :
          /\ IsInactive(Storage, p)
          /\ provider_withdraw_unregistered(Storage, p).err = "Ok"

=============================================================================
